---- MODULE Spec2Model ----
(***************************************************************************)
(* A model of local-agents-server.  The API caller agent                   *)
(* (src/agents/api_caller.py): the documentation harvester                 *)
(* (_fetch_documentation and its helpers), the request synthesizer         *)
(* (_form_api_call_with_llm), the call executor (_execute_api_call) and    *)
(* the retry loop of APICallerAgent.process.  Around it: the dispatch      *)
(* router over the agents' can_handle predicates, the file agent's path    *)
(* validation and writes, the credential manager's lookup and its cache    *)
(* under concurrent callers, the chat-completion endpoint and the URL      *)
(* fetcher agent.                                                          *)
(*                                                                         *)
(* Python values are modelled as tagged records: None is Null, a string is *)
(* Str(s), a number is Num(n), a dict is Dict(f) with f a function from    *)
(* its keys.  A dict that is the receiver of .get (a plan, an execution    *)
(* result) is the bare function f.                                         *)
(***************************************************************************)
EXTENDS Integers, Sequences, FiniteSets, TLC

VARIABLES
    pc,              \* position of the run
    message,         \* the parsed request message (input)
    start_page,      \* what the documentation start URL serves (environment)
    visited_urls,    \* _fetch_documentation: visited_urls
    links_to_visit,  \* _fetch_documentation: links_to_visit
    docs_items,      \* _fetch_documentation: docs_content (one entry per page kept)
    page_num,        \* _fetch_documentation: loop counter of the crawl
    fetch_failures,  \* number of crawl page fetches that failed (bounded)
    fetch_log,       \* history: URLs fetched by the crawl loop, in order
    docs_content,    \* process: the text returned by _fetch_documentation
    attempt,         \* process: loop variable of the retry loop
    api_call_info,   \* process: the plan of the current attempt
    result,          \* process: the execution result of the current attempt
    previous_error,  \* process: failure context handed to the next synthesis
    net,             \* what the network did at the last target-API call
    synth_log,       \* history: previous_error argument of every synthesis
    exec_log,        \* history: every execution result, in order
    format_call,     \* history: the arguments of the _format_response call
    ret,             \* what process returned (or that it raised)
    router,          \* the dispatch router: one routing of one message
    synth,           \* the request synthesizer on one generator reply
    files,           \* the file agent: one read or write request, and the disk
    creds,           \* the credential manager: the store and one lookup
    chat,            \* the chat-completion endpoint: one request
    fetcher          \* the URL fetcher agent: one call of process

\* The state outside the API caller agent
others == <<router, synth, files, creds, chat, fetcher>>

vars == <<pc, message, start_page, visited_urls, links_to_visit, docs_items,
          page_num, fetch_failures, fetch_log, docs_content, attempt,
          api_call_info, result, previous_error, net, synth_log, exec_log,
          format_call, ret, router, synth, files, creds, chat, fetcher>>

\* A component that is not running
Idle == [pc |-> "idle"]
IdleOthers ==
    /\ router = Idle
    /\ synth = Idle
    /\ files = Idle
    /\ creds = Idle
    /\ chat = Idle
    /\ fetcher = Idle
\* Every component but one is idle
IdleBut(component) ==
    /\ IF component = "router" THEN TRUE ELSE router = Idle
    /\ IF component = "synth" THEN TRUE ELSE synth = Idle
    /\ IF component = "files" THEN TRUE ELSE files = Idle
    /\ IF component = "creds" THEN TRUE ELSE creds = Idle
    /\ IF component = "chat" THEN TRUE ELSE chat = Idle
    /\ IF component = "fetcher" THEN TRUE ELSE fetcher = Idle

----------------------------------------------------------------------------
(* Python values *)

Null == [t |-> "null"]
Str(s) == [t |-> "str", s |-> s]
Num(n) == [t |-> "num", n |-> n]
Dict(f) == [t |-> "dict", d |-> f]
EmptyDict == Dict(<<>>)
EmptyList == [t |-> "list", items |-> <<>>]

IsStr(v) == v.t = "str"
IsDict(v) == v.t = "dict"

\* bool(v) of Python
Truthy(v) ==
    CASE v.t = "null" -> FALSE
      [] v.t = "str" -> v.s # ""
      [] v.t = "num" -> v.n # 0
      [] v.t = "dict" -> DOMAIN v.d # {}

\* d.get(k, default) on a dict held as a function
Get(d, k, default) == IF k \in DOMAIN d THEN d[k] ELSE default

----------------------------------------------------------------------------
(* Call Executor: _execute_api_call *)

\* requests' Response.ok, which the executor stores as "success": False
\* exactly when raise_for_status would raise, i.e. for 400 <= status < 600.
ResponseOk(status_code) == ~(400 <= status_code /\ status_code < 600)

\* requests.request accepts the URL (an absolute http(s) URL)
IsRequestableUrl(url) == IsStr(url) /\ url.s \in {"https://api.example.com/users"}

Returned(value) == [outcome |-> "return", value |-> value]
Raised(exc) == [outcome |-> "raise", exc |-> exc]

\* The try block of _execute_api_call (lines 772-809): either the result
\* dict it returns or the exception it raises.
ExecuteTryBlock(plan, network) ==
    LET method == Get(plan, "method", Str("GET"))
        url == Get(plan, "url", Null)
        headers == Get(plan, "headers", EmptyDict)
        params == Get(plan, "params", Null)
    IN  IF ~IsStr(method) THEN Raised("AttributeError")          \* .upper()
        ELSE IF Truthy(params) /\ ~IsDict(params) THEN Raised("TypeError")  \* urlencode
        ELSE IF ~IsRequestableUrl(url) THEN Raised("MissingSchema")
        ELSE IF headers.t \notin {"null", "dict"} THEN Raised("InvalidHeader")
        ELSE IF network.kind = "exception" THEN Raised("ConnectionError")
        ELSE Returned([status_code |-> network.status_code,
                       success |-> ResponseOk(network.status_code),
                       data |-> network.data,
                       headers |-> "response headers",
                       full_url |-> IF Truthy(params) THEN "url?params" ELSE "url"])

\* A handler that catches the exceptions of requests only
ExecuteExceptRequestsOnly(tried) ==
    IF tried.outcome = "raise" /\ tried.exc \in {"ConnectionError", "MissingSchema"}
    THEN Returned([status_code |-> 0, success |-> FALSE, error |-> tried.exc])
    ELSE tried

\* except Exception (lines 811-817): every exception of the try block
\* becomes a status-0 result.
ExecuteExceptClause(tried) ==
    IF tried.outcome = "raise"
    THEN Returned([status_code |-> 0, success |-> FALSE, error |-> tried.exc])
    ELSE tried

_execute_api_call(plan, network) == ExecuteExceptClause(ExecuteTryBlock(plan, network))

----------------------------------------------------------------------------
(* Documentation Harvester: _fetch_documentation and its helpers *)

MAX_CONTENT_LENGTH == 4000
max_pages == 11
TopLinks == 10
TruncationNoticeLen == 51

\* Bounds of the model
MaxAnchors == 16
MaxFetchFailures == 2
TitleLen == 18
UrlLen == 28
LinkedTextLen == 900

StartUrl == 0

\* The shapes of a docs URL the harvester tells apart (lines 205, 214)
UrlShapes == {"plain", "json", "redoc", "swagger_json"}
\* A detection by the ".json" suffix alone
LooksLikeSpecUrlSuffixOnly(shape) == shape = "json"
LooksLikeSpecUrl(shape) == shape \in {"json", "swagger_json"}
LooksLikeViewerUrl(shape) == shape \in {"redoc", "swagger_json"}

\* What a URL can serve: nothing (the fetch fails), an HTML page, a JSON
\* document that is an OpenAPI object, a JSON document the renderer
\* cannot walk (a list: spec.get raises AttributeError)
Served == {"down", "html", "openapi", "json_list"}

\* A text, by its length and its first characters
\* and whether it ends with the truncation notice
NoText == [kind |-> "none", len |-> 0, head |-> "", notice |-> FALSE]
Text(kind, len, head, notice) ==
    [kind |-> kind, len |-> len, head |-> head, notice |-> notice]
IsText(t) == t.kind # "none"
\* bool(t) of an Optional[str]
TextTruthy(t) == IsText(t) /\ t.len > 0
StartsWithError(t) == IsText(t) /\ t.head = "Error"

\* Lengths of the rendered spec the model draws from: the 3 header lines
\* alone, a mid-size document, and one beyond the crawl budget
SpecLens == {60 + 1 + 35 + 1 + 60 + 1,
             2 * MAX_CONTENT_LENGTH + TruncationNoticeLen,
             5 * MAX_CONTENT_LENGTH}

\* _fetch_openapi_spec (lines 499-618): the rendering, or None when the
\* fetch fails, the body is no JSON, or the rendering raises
_fetch_openapi_spec(served, spec_len) ==
    IF served = "openapi" THEN Text("spec", spec_len, "====", FALSE) ELSE NoText

\* The a-tags of the first page: the first n of a fixed sequence which
\* holds a link back to the start URL (anchor 15), a repeated URL (anchor
\* 7), an off-domain link (4), a fragment or download link (5), a link
\* with no keyword (9) and links of the scores 1..3.
AnchorAt(i) ==
    [url |-> IF i % 16 = 15 THEN StartUrl ELSE IF i % 12 = 7 THEN i - 6 ELSE i,
     same_domain |-> i % 12 # 4,
     skip |-> i % 12 = 5,
     score |-> IF i % 16 = 15 THEN 3 ELSE IF i % 12 = 9 THEN 0 ELSE 1 + (i % 3)]
Anchors(n) == [i \in 1..n |-> AnchorAt(i)]

\* The loop of _extract_relevant_links (lines 328-365): the (score, url)
\* pairs appended to links, in document order
RECURSIVE ScanAnchors(_, _, _, _)
ScanAnchors(anchors, i, seen_urls, links) ==
    IF i > Len(anchors) THEN links
    ELSE LET a == anchors[i]
         IN  IF ~a.same_domain \/ a.skip \/ a.url \in seen_urls
             THEN ScanAnchors(anchors, i + 1, seen_urls, links)
             ELSE ScanAnchors(anchors, i + 1, seen_urls \cup {a.url},
                              IF a.score > 0
                              THEN Append(links, [score |-> a.score, url |-> a.url])
                              ELSE links)

\* list.sort(reverse=True, key=score) (line 368): a stable sort, equal
\* scores keep their order
RECURSIVE InsertByScore(_, _)
InsertByScore(sorted, x) ==
    IF sorted = <<>> THEN <<x>>
    ELSE IF Head(sorted).score >= x.score
         THEN <<Head(sorted)>> \o InsertByScore(Tail(sorted), x)
         ELSE <<x>> \o sorted
RECURSIVE SortByScoreDesc(_)
SortByScoreDesc(links) ==
    IF links = <<>> THEN <<>>
    ELSE InsertByScore(SortByScoreDesc(SubSeq(links, 1, Len(links) - 1)),
                       links[Len(links)])

\* A sort that puts equal scores in the reverse of the document order
_extract_relevant_links_ties_reversed(anchors) ==
    LET links == ScanAnchors(anchors, 1, {}, <<>>)
        sorted == SortByScoreDesc([i \in 1..Len(links) |-> links[Len(links) + 1 - i]])
    IN  [i \in 1..Len(sorted) |-> sorted[i].url]

_extract_relevant_links(anchors) ==
    LET sorted == SortByScoreDesc(ScanAnchors(anchors, 1, {}, <<>>))
    IN  [i \in 1..Len(sorted) |-> sorted[i].url]

\* relevant_links[:10]
Take(s, n) == SubSeq(s, 1, IF Len(s) < n THEN Len(s) ELSE n)

\* The five strings a kept page adds to docs_content (lines 291-295)
PageItems(title_len, url_len, text_len) ==
    <<1 + 60 + 1, 6 + title_len + 1, 5 + url_len + 1, 60 + 2, text_len>>

RECURSIVE SumSeq(_)
SumSeq(s) == IF s = <<>> THEN 0 ELSE Head(s) + SumSeq(Tail(s))

\* len(sep.join(items))
JoinLen(items, sep_len) ==
    IF items = <<>> THEN 0 ELSE SumSeq(items) + sep_len * (Len(items) - 1)

RECURSIVE AllItems(_)
AllItems(pages) ==
    IF pages = <<>> THEN <<>>
    ELSE PageItems(pages[1].title_len, pages[1].url_len, pages[1].text_len)
         \o AllItems(Tail(pages))

\* Lines 301-309: join, truncate to twice the page budget, return
CombinedLen(pages) == JoinLen(AllItems(pages), 2)
Truncates(len) == len > MAX_CONTENT_LENGTH * 2
CombineDocs(pages) ==
    LET len == CombinedLen(pages)
    IN  Text("crawl",
             IF Truncates(len) THEN MAX_CONTENT_LENGTH * 2 + TruncationNoticeLen ELSE len,
             IF len = 0 THEN "" ELSE "\n===",
             Truncates(len))

\* Text lengths the start page is drawn from: empty, the length that fills
\* the budget exactly, and one character more
ExactFit == MAX_CONTENT_LENGTH * 2 - JoinLen(PageItems(TitleLen, UrlLen, 0), 2)
StartTextLens == {0, ExactFit, ExactFit + 1}

----------------------------------------------------------------------------
(* Request Synthesizer: _form_api_call_with_llm *)

\* Plans the text generator may reply with (JSON objects)
GoodUrl == Str("https://api.example.com/users")
GoodPlan ==
    [method |-> Str("GET"), url |-> GoodUrl,
     headers |-> Dict([Accept |-> "application/json"]),
     body |-> Null, params |-> Null, explanation |-> Str("list the users")]
NullMethodPlan == [GoodPlan EXCEPT !.method = Null]
NullHeadersPlan == [GoodPlan EXCEPT !.headers = Null]
ErrorPlan == [error |-> Str("the documentation names no such endpoint")]
EmptyPlan == [k \in {} |-> Null]

\* The replies of the text generator: the call fails, the HTTP body is no
\* chat completion JSON, the content is no JSON, or the content is JSON
LLMReplies ==
    {[kind |-> "unreachable"], [kind |-> "bad_http_body"], [kind |-> "not_json"]}
    \cup {[kind |-> "json", value |-> v] : v \in {Null, Str("sorry"), Num(5), EmptyList}}
    \cup {[kind |-> "json", value |-> Dict(p)] :
            p \in {GoodPlan, NullMethodPlan, NullHeadersPlan, ErrorPlan, EmptyPlan}}

\* Lines 734-753: the api key goes into the plan's headers
InjectApiKey(plan, mentions) ==
    LET with_headers == IF "headers" \in DOMAIN plan THEN plan
                        ELSE ("headers" :> EmptyDict) @@ plan
        headers == with_headers["headers"]
    IN  IF ~IsDict(headers) THEN Raised("TypeError")
        ELSE IF "Authorization" \in DOMAIN headers.d THEN Returned(with_headers)
        ELSE LET name == IF "bearer" \in mentions THEN "Authorization"
                         ELSE IF "x-api-key" \in mentions THEN "X-API-Key"
                         ELSE "ApiKey"
                 value == IF "bearer" \in mentions THEN "Bearer <key>" ELSE "<key>"
             IN  Returned([with_headers EXCEPT
                             !["headers"] = Dict((name :> value) @@ headers.d)])

\* The try block (lines 636-759)
SynthesizeTryBlock(docs, api_key, reply) ==
    CASE reply.kind = "unreachable" -> Raised("RequestException")
      [] reply.kind = "bad_http_body" -> Raised("JSONDecodeError before llm_response")
      [] reply.kind = "not_json" -> Raised("JSONDecodeError")
      [] reply.kind = "json" ->
            IF ~IsDict(reply.value)
            THEN \* 'headers' not in ..., item assignment or .get raise
                 Raised(IF api_key THEN "TypeError" ELSE "AttributeError")
            ELSE IF api_key
                 THEN LET injected == InjectApiKey(reply.value.d, docs.mentions)
                      IN  IF injected.outcome = "raise" THEN injected
                          ELSE Returned(Dict(injected.value))
                 ELSE Returned(reply.value)

\* The except clauses (lines 761-767).  The JSONDecodeError clause reads
\* llm_response, which is unbound when response.json() (line 713) raised.
SynthesizeExceptClauses(tried) ==
    IF tried.outcome = "return" THEN tried
    ELSE IF tried.exc = "JSONDecodeError before llm_response"
         THEN Raised("UnboundLocalError")
         ELSE Returned(Dict([error |-> Str(tried.exc)]))

_form_api_call_with_llm(docs, api_key, reply) ==
    SynthesizeExceptClauses(SynthesizeTryBlock(docs, api_key, reply))

----------------------------------------------------------------------------
(* Response formatter and retry loop of APICallerAgent.process *)

\* One more attempt than the code allows
max_retries_plus_one == 2 + 1

max_retries == 2

\* Statuses and bodies the target API answers with
ApiStatuses == {200, 400, 404, 422, 499, 500}
ApiBodies == {Str("body a"), Str("body b")}
Networks ==
    {[kind |-> "exception"]}
    \cup {[kind |-> "response", status_code |-> s, data |-> b] :
            s \in ApiStatuses, b \in ApiBodies}

\* _format_response (lines 819-874): the text, by what it is made of.
\* Line 871 calls .get on the plan's headers.
_format_response(plan, res, retry_count) ==
    IF ~IsDict(Get(plan, "headers", EmptyDict)) THEN Raised("AttributeError")
    ELSE Returned([kind |-> "formatted",
                   banner |-> IF retry_count = 0 THEN "none"
                              ELSE IF Get(res, "success", FALSE) THEN "success after retry"
                              ELSE "failed after retry",
                   retry_count |-> retry_count,
                   api_call_info |-> plan,
                   result |-> res])

\* Line 116: not api_call_info or 'error' in api_call_info
SynthesisFailed(plan) == ~Truthy(plan) \/ "error" \in DOMAIN plan.d

\* A guard that also retries server errors
ShouldRetryServerErrors(status_code, n) ==
    400 <= status_code /\ status_code < 600 /\ n < max_retries - 1

\* Line 136: the retry guard
ShouldRetry(status_code, n) ==
    400 <= status_code /\ status_code < 500 /\ n < max_retries - 1

\* Lines 137-147 with the plan as the generator wrote it: the headers
\* without the injected key
FailureContextBeforeInjection(plan, res) ==
    [status_code |-> Get(res, "status_code", 0),
     error_response |-> Get(res, "data", Null),
     attempted_request |->
        [method |-> Get(plan, "method", Null), url |-> Get(plan, "url", Null),
         headers |-> Get(GoodPlan, "headers", Null), body |-> Get(plan, "body", Null),
         params |-> Get(plan, "params", Null)]]

\* Lines 137-147
FailureContext(plan, res) ==
    [status_code |-> Get(res, "status_code", 0),
     error_response |-> Get(res, "data", Null),
     attempted_request |->
        [method |-> Get(plan, "method", Null), url |-> Get(plan, "url", Null),
         headers |-> Get(plan, "headers", Null), body |-> Get(plan, "body", Null),
         params |-> Get(plan, "params", Null)]]

----------------------------------------------------------------------------
(* The run of APICallerAgent.process *)

NoReturn == [kind |-> "none"]
NoNetwork == [kind |-> "none"]

\* The result of _extract_request_components, as far as process reads it:
\* the shape of the docs URL ("none" when the message has no docs=),
\* whether request text is left, whether a key was given
Messages ==
    [docs : UrlShapes \cup {"none"}, has_request : BOOLEAN, api_key : BOOLEAN]

\* The corpus _fetch_documentation returns: a text and what it mentions
Corpus(text, mentions) ==
    [kind |-> text.kind, len |-> text.len, head |-> text.head,
     notice |-> text.notice, mentions |-> IF text.len = 0 THEN {} ELSE mentions]
CorpusMentions == {{}, {"bearer", "apikey"}}

NoLocals ==
    /\ visited_urls' = {}
    /\ links_to_visit' = <<>>
    /\ docs_items' = <<>>
    /\ page_num' = 0
    /\ fetch_failures' = 0
    /\ fetch_log' = <<>>

Init ==
    /\ IdleOthers
    /\ pc = "process"
    /\ message \in Messages
    /\ start_page \in Served
    /\ visited_urls = {}
    /\ links_to_visit = <<>>
    /\ docs_items = <<>>
    /\ page_num = 0
    /\ fetch_failures = 0
    /\ fetch_log = <<>>
    /\ docs_content = NoText
    /\ attempt = 0
    /\ api_call_info = Null
    /\ result = Null
    /\ previous_error = Null
    /\ net = NoNetwork
    /\ synth_log = <<>>
    /\ exec_log = <<>>
    /\ format_call = Null
    /\ ret = NoReturn

\* process, lines 73-92: the early returns, then the call of
\* _fetch_documentation
ProcessEntry ==
    /\ UNCHANGED others
    /\ pc = "process"
    /\ IF message.docs = "none"
       THEN pc' = "done" /\ ret' = [kind |-> "usage"]
       ELSE IF ~message.has_request
            THEN pc' = "done" /\ ret' = [kind |-> "need_request"]
            ELSE pc' = "stage1" /\ ret' = ret
    /\ UNCHANGED <<message, start_page, visited_urls, links_to_visit, docs_items,
                   page_num, fetch_failures, fetch_log, docs_content, attempt,
                   api_call_info, result, previous_error, net, synth_log, exec_log,
                   format_call>>

\* return spec_result (lines 209, 221, 233)
ReturnSpec(spec_result) ==
    /\ pc' = "harvest_return"
    /\ \E mentions \in CorpusMentions : docs_content' = Corpus(spec_result, mentions)

HarvestFrame ==
    <<message, start_page, visited_urls, links_to_visit, docs_items, page_num,
      fetch_failures, fetch_log, attempt, api_call_info, result, previous_error,
      net, synth_log, exec_log, format_call, ret>>

\* _fetch_documentation, lines 204-211: a URL that looks like a spec file
StageDirectSpec ==
    /\ UNCHANGED others
    /\ pc = "stage1"
    /\ IF LooksLikeSpecUrl(message.docs)
       THEN \E spec_len \in SpecLens :
              LET spec_result == _fetch_openapi_spec(start_page, spec_len)
              IN  IF TextTruthy(spec_result)
                  THEN ReturnSpec(spec_result)
                  ELSE pc' = "stage2" /\ docs_content' = docs_content
       ELSE pc' = "stage2" /\ docs_content' = docs_content
    /\ UNCHANGED HarvestFrame

\* A failed fetch of the found spec URL ends the harvest with no text
TryFoundSpecOrGiveUp(next_pc) ==
    \E served \in Served, spec_len \in SpecLens :
        ReturnSpec(_fetch_openapi_spec(served, spec_len))

\* A spec URL found on the start page is fetched: lines 217-223, 228-235
TryFoundSpec(next_pc) ==
    \E served \in Served, spec_len \in SpecLens :
        LET spec_result == _fetch_openapi_spec(served, spec_len)
        IN  IF TextTruthy(spec_result)
            THEN ReturnSpec(spec_result)
            ELSE pc' = next_pc /\ docs_content' = docs_content

\* Lines 213-223: a URL that looks like a Redoc/Swagger UI page.
\* _extract_openapi_spec_url returns None when the page cannot be fetched.
StageViewer ==
    /\ UNCHANGED others
    /\ pc = "stage2"
    /\ IF LooksLikeViewerUrl(message.docs) /\ start_page # "down"
       THEN \/ pc' = "stage3" /\ docs_content' = docs_content   \* no pattern matches
            \/ TryFoundSpec("stage3")
       ELSE pc' = "stage3" /\ docs_content' = docs_content
    /\ UNCHANGED HarvestFrame

\* Lines 225-245: _find_openapi_spec_in_page (None when the page cannot be
\* fetched), then the set-up of the crawl
EnterCrawl ==
    /\ pc' = "crawl"
    /\ docs_content' = docs_content
    /\ visited_urls' = {}
    /\ docs_items' = <<>>
    /\ links_to_visit' = <<StartUrl>>
    /\ page_num' = 0

StageFindSpec ==
    /\ UNCHANGED others
    /\ pc = "stage3"
    /\ IF start_page # "down"
       THEN \/ EnterCrawl                                       \* nothing found
            \/ \E served \in Served, spec_len \in SpecLens :
                 LET spec_result == _fetch_openapi_spec(served, spec_len)
                 IN  IF TextTruthy(spec_result)
                     THEN ReturnSpec(spec_result)
                          /\ UNCHANGED <<visited_urls, docs_items, links_to_visit, page_num>>
                     ELSE EnterCrawl
       ELSE EnterCrawl
    /\ UNCHANGED <<message, start_page, fetch_failures, fetch_log, attempt,
                   api_call_info, result, previous_error, net, synth_log, exec_log,
                   format_call, ret>>


\* The a-tags of a fetched page: the start page has the first n anchors
\* of the fixed sequence, every other page one link to a page of its own
PageAnchors(url, n) ==
    IF url = StartUrl THEN Anchors(n)
    ELSE <<[url |-> url + 100, same_domain |-> TRUE, skip |-> FALSE, score |-> 2]>>

\* A crawl that takes links from every page it fetches
ExtractsLinksOnEveryPage(n) == TRUE

\* Line 271: links are taken from the first page only
ExtractsLinks(n) == n = 0

\* A crawl that forgets what it visited
NeverVisited(url, visited) == FALSE

\* Line 254: skip if already visited
AlreadyVisited(url, visited) == url \in visited

\* An except clause that gives up the crawl: the rest of the queue is
\* dropped
AfterFetchErrorBreak(rest) == <<>>

\* Lines 297-299: the except clause logs and continues with the rest of
\* the queue
AfterFetchError(rest) == rest

\* One iteration of the crawl loop (lines 247-299)
CrawlPage ==
    /\ UNCHANGED others
    /\ pc = "crawl"
    /\ page_num < max_pages
    /\ links_to_visit # <<>>
    /\ page_num' = page_num + 1
    /\ LET current_url == Head(links_to_visit)
           rest == Tail(links_to_visit)
       IN  IF AlreadyVisited(current_url, visited_urls)
           THEN /\ links_to_visit' = rest
                /\ UNCHANGED <<visited_urls, docs_items, fetch_failures, fetch_log>>
           ELSE /\ visited_urls' = visited_urls \cup {current_url}
                /\ fetch_log' = Append(fetch_log, current_url)
                /\ \/ \* the fetch or the parse raises: continue
                      /\ IF current_url = StartUrl THEN start_page = "down"
                         ELSE fetch_failures < MaxFetchFailures
                      /\ fetch_failures' =
                            IF current_url = StartUrl THEN fetch_failures
                            ELSE fetch_failures + 1
                      /\ links_to_visit' = AfterFetchError(rest)
                      /\ docs_items' = docs_items
                   \/ \* the page is fetched and kept
                      /\ current_url = StartUrl => start_page # "down"
                      /\ fetch_failures' = fetch_failures
                      /\ \E n \in 0..MaxAnchors,
                            text_len \in (IF current_url = StartUrl THEN StartTextLens
                                          ELSE {LinkedTextLen}) :
                           /\ (current_url = StartUrl /\ start_page # "html") => n = 0
                           /\ current_url # StartUrl => n = 0
                           /\ links_to_visit' =
                                IF ExtractsLinks(page_num)
                                THEN rest \o Take(_extract_relevant_links(
                                                    PageAnchors(current_url, n)), TopLinks)
                                ELSE rest
                           /\ docs_items' = Append(docs_items,
                                [url |-> current_url, title_len |-> TitleLen,
                                 url_len |-> UrlLen, text_len |-> text_len])
    /\ UNCHANGED <<pc, message, start_page, docs_content, attempt, api_call_info,
                   result, previous_error, net, synth_log, exec_log, format_call,
                   ret>>

\* Lines 301-309: the loop is over, the corpus is joined, cut and returned
CrawlReturn ==
    /\ UNCHANGED others
    /\ pc = "crawl"
    /\ page_num >= max_pages \/ links_to_visit = <<>>
    /\ pc' = "harvest_return"
    /\ \E mentions \in CorpusMentions :
         docs_content' = Corpus(CombineDocs(docs_items), mentions)
    /\ UNCHANGED HarvestFrame

\* process, lines 92-100: the corpus is back; the frame of
\* _fetch_documentation is gone
ProcessDocs ==
    /\ UNCHANGED others
    /\ pc = "harvest_return"
    /\ IF StartsWithError(docs_content)
       THEN pc' = "done" /\ ret' = [kind |-> "docs_error"]
       ELSE pc' = "synthesize" /\ ret' = ret
    /\ NoLocals
    /\ attempt' = 0
    /\ UNCHANGED <<message, start_page, docs_content, api_call_info, result,
                   previous_error, net, synth_log, exec_log, format_call>>

\* Lines 102-117: the synthesis of attempt n and the check of its result
Synthesize ==
    /\ UNCHANGED others
    /\ pc = "synthesize"
    /\ synth_log' = Append(synth_log, previous_error)
    /\ \E reply \in LLMReplies :
         LET formed == _form_api_call_with_llm(docs_content, message.api_key, reply)
         IN  IF formed.outcome = "raise"
             THEN /\ pc' = "done"
                  /\ ret' = [kind |-> "raised", exc |-> formed.exc]
                  /\ api_call_info' = api_call_info
             ELSE /\ api_call_info' = formed.value
                  /\ IF SynthesisFailed(formed.value)
                     THEN pc' = "done" /\ ret' = [kind |-> "synth_error"]
                     ELSE pc' = "execute" /\ ret' = ret
    /\ UNCHANGED <<message, start_page, visited_urls, links_to_visit, docs_items,
                   page_num, fetch_failures, fetch_log, docs_content, attempt,
                   result, previous_error, net, exec_log, format_call>>

\* The response formatter called with the number of attempts, not of retries
ReturnFormattedAttempts(plan, res, retry_count) ==
    LET formatted == _format_response(plan, res, retry_count + 1)
    IN  /\ pc' = "done"
        /\ format_call' = [api_call_info |-> plan, result |-> res,
                           retry_count |-> retry_count + 1]
        /\ ret' = IF formatted.outcome = "raise"
                  THEN [kind |-> "raised", exc |-> formatted.exc]
                  ELSE formatted.value

\* The response formatter called with the first result of the run
ReturnFormattedFirst(plan, res, retry_count) ==
    LET first == IF exec_log = <<>> THEN res ELSE exec_log[1]
        formatted == _format_response(plan, first, retry_count)
    IN  /\ pc' = "done"
        /\ format_call' = [api_call_info |-> plan, result |-> first,
                           retry_count |-> retry_count]
        /\ ret' = IF formatted.outcome = "raise"
                  THEN [kind |-> "raised", exc |-> formatted.exc]
                  ELSE formatted.value

\* Line 154: return self._format_response(api_call_info, result, retry_count=attempt)
ReturnFormatted(plan, res, retry_count) ==
    LET formatted == _format_response(plan, res, retry_count)
    IN  /\ pc' = "done"
        /\ format_call' = [api_call_info |-> plan, result |-> res,
                           retry_count |-> retry_count]
        /\ ret' = IF formatted.outcome = "raise"
                  THEN [kind |-> "raised", exc |-> formatted.exc]
                  ELSE formatted.value

\* Lines 124-154: the execution of attempt n, the retry decision and, when
\* the loop is left, the formatting of the response
Execute ==
    /\ UNCHANGED others
    /\ pc = "execute"
    /\ \E network \in Networks :
         LET executed == _execute_api_call(api_call_info.d, network)
         IN  /\ net' = network
             /\ IF executed.outcome = "raise"
                THEN /\ pc' = "done"
                     /\ ret' = [kind |-> "raised", exc |-> executed.exc]
                     /\ UNCHANGED <<result, exec_log, previous_error, attempt,
                                    format_call>>
                ELSE LET res == executed.value
                     IN  /\ result' = res
                         /\ exec_log' = Append(exec_log, res)
                         /\ IF Get(res, "success", FALSE)
                            THEN /\ ReturnFormatted(api_call_info.d, res, attempt)
                                 /\ UNCHANGED <<previous_error, attempt>>
                            ELSE IF ShouldRetry(Get(res, "status_code", 0), attempt)
                                 THEN /\ previous_error' = FailureContext(api_call_info.d, res)
                                      /\ IF attempt + 1 < max_retries
                                         THEN /\ attempt' = attempt + 1
                                              /\ pc' = "synthesize"
                                              /\ UNCHANGED <<ret, format_call>>
                                         ELSE /\ attempt' = attempt
                                              /\ ReturnFormatted(api_call_info.d, res, attempt)
                                 ELSE /\ ReturnFormatted(api_call_info.d, res, attempt)
                                      /\ UNCHANGED <<previous_error, attempt>>
    /\ UNCHANGED <<message, start_page, visited_urls, links_to_visit, docs_items,
                   page_num, fetch_failures, fetch_log, docs_content, api_call_info,
                   synth_log>>

Next ==
    \/ ProcessEntry
    \/ StageDirectSpec
    \/ StageViewer
    \/ StageFindSpec
    \/ CrawlPage
    \/ CrawlReturn
    \/ ProcessDocs
    \/ Synthesize
    \/ Execute

Spec == Init /\ [][Next]_vars

----------------------------------------------------------------------------
(* The retry loop alone, from line 97 of process on.  It starts where
   _fetch_documentation has returned: with the empty corpus of an
   unreachable start page, or with the rendering of a spec file.  The loop
   is sequential code whose calls are bounded by timeouts, so a step that
   can be taken is taken. *)

LoopEntries ==
    {[message |-> [docs |-> "plain", has_request |-> TRUE, api_key |-> k],
      start_page |-> "down",
      docs_content |-> Corpus(CombineDocs(<<>>), {})] : k \in BOOLEAN}
    \cup
    {[message |-> [docs |-> "json", has_request |-> TRUE, api_key |-> k],
      start_page |-> "openapi",
      docs_content |-> Corpus(_fetch_openapi_spec("openapi", l), m)] :
        k \in BOOLEAN, l \in SpecLens, m \in CorpusMentions}

InitRetry ==
    /\ IdleOthers
    /\ pc = "synthesize"
    /\ \E e \in LoopEntries :
         /\ message = e.message
         /\ start_page = e.start_page
         /\ docs_content = e.docs_content
    /\ visited_urls = {}
    /\ links_to_visit = <<>>
    /\ docs_items = <<>>
    /\ page_num = 0
    /\ fetch_failures = 0
    /\ fetch_log = <<>>
    /\ attempt = 0
    /\ api_call_info = Null
    /\ result = Null
    /\ previous_error = Null
    /\ net = NoNetwork
    /\ synth_log = <<>>
    /\ exec_log = <<>>
    /\ format_call = Null
    /\ ret = NoReturn

NextRetry ==
    \/ Synthesize
    \/ Execute

SpecRetry == InitRetry /\ [][NextRetry]_vars /\ WF_vars(NextRetry)

----------------------------------------------------------------------------
(* The stages of _fetch_documentation before the crawl, from its entry to
   the return of a spec or the set-up of the crawl (lines 204-245).  They
   are sequential code with timeouts on every request, so a step that can
   be taken is taken. *)

InitHarvest ==
    /\ IdleOthers
    /\ pc = "stage1"
    /\ message \in {m \in Messages : m.docs # "none" /\ m.has_request}
    /\ start_page \in Served
    /\ visited_urls = {}
    /\ links_to_visit = <<>>
    /\ docs_items = <<>>
    /\ page_num = 0
    /\ fetch_failures = 0
    /\ fetch_log = <<>>
    /\ docs_content = NoText
    /\ attempt = 0
    /\ api_call_info = Null
    /\ result = Null
    /\ previous_error = Null
    /\ net = NoNetwork
    /\ synth_log = <<>>
    /\ exec_log = <<>>
    /\ format_call = Null
    /\ ret = NoReturn

NextHarvest ==
    \/ StageDirectSpec
    \/ StageViewer
    \/ StageFindSpec

SpecHarvest == InitHarvest /\ [][NextHarvest]_vars /\ WF_vars(NextHarvest)

----------------------------------------------------------------------------
(* The call executor alone, on every plan shape *)

Missing == [t |-> "missing"]
Field(k, v) == IF v = Missing THEN [x \in {} |-> Null] ELSE (k :> v)

ExecPlans ==
    {Field("method", m) @@ Field("url", u) @@ Field("headers", h)
        @@ Field("body", b) @@ Field("params", p) :
        m \in {Missing, Null, Str("GET"), Str("post"), Num(5)},
        u \in {Missing, Null, GoodUrl, Str("users")},
        h \in {Missing, Null, EmptyDict, Dict([Accept |-> "application/json"])},
        b \in {Missing, Null, Dict([name |-> "a"])},
        p \in {Missing, Null, EmptyDict, Dict([limit |-> "5"]), Str("limit=5")}}

ExecStatuses == {101, 199, 200, 399, 400, 499, 500, 599, 600, 999}
ExecNetworks ==
    {[kind |-> "exception"]}
    \cup {[kind |-> "response", status_code |-> s, data |-> Str("body a")] :
            s \in ExecStatuses}

InitExec ==
    /\ IdleOthers
    /\ pc = "exec_call"
    /\ api_call_info \in {Dict(p) : p \in ExecPlans}
    /\ net \in ExecNetworks
    /\ message = [docs |-> "none", has_request |-> FALSE, api_key |-> FALSE]
    /\ start_page = "down"
    /\ visited_urls = {}
    /\ links_to_visit = <<>>
    /\ docs_items = <<>>
    /\ page_num = 0
    /\ fetch_failures = 0
    /\ fetch_log = <<>>
    /\ docs_content = NoText
    /\ attempt = 0
    /\ result = Null
    /\ previous_error = Null
    /\ synth_log = <<>>
    /\ exec_log = <<>>
    /\ format_call = Null
    /\ ret = NoReturn

\* One call of _execute_api_call(api_call_info) while the network does net
ExecuteApiCall ==
    /\ UNCHANGED others
    /\ pc = "exec_call"
    /\ pc' = "exec_return"
    /\ LET executed == _execute_api_call(api_call_info.d, net)
       IN  IF executed.outcome = "raise"
           THEN ret' = [kind |-> "raised", exc |-> executed.exc] /\ result' = result
           ELSE ret' = ret /\ result' = executed.value
    /\ UNCHANGED <<message, start_page, visited_urls, links_to_visit, docs_items,
                   page_num, fetch_failures, fetch_log, docs_content, attempt,
                   api_call_info, previous_error, net, synth_log, exec_log,
                   format_call>>

NextExec == ExecuteApiCall

SpecExec == InitExec /\ [][NextExec]_vars

----------------------------------------------------------------------------
(* Strings.  A Python str is a TLA+ string; the operators below are the
   str methods and the regular expressions the agents use on messages. *)

CharAt(s, i) == SubSeq(s, i, i)

\* sub in s
Contains(s, sub) ==
    \E i \in 1..(Len(s) - Len(sub) + 1) : SubSeq(s, i, i + Len(sub) - 1) = sub

\* s.startswith(p), s.endswith(p)
StartsWith(s, p) == Len(p) <= Len(s) /\ SubSeq(s, 1, Len(p)) = p
EndsWith(s, p) == Len(p) <= Len(s) /\ SubSeq(s, Len(s) - Len(p) + 1, Len(s)) = p
\* sub is in s at position i
At(s, i, sub) == i >= 1 /\ i + Len(sub) - 1 <= Len(s) /\ SubSeq(s, i, i + Len(sub) - 1) = sub

UpperChars == "ABCDEFGHIJKLMNOPQRSTUVWXYZ"
LowerChars == "abcdefghijklmnopqrstuvwxyz"
Digits == "0123456789"

IsUpperChar(c) == \E k \in 1..Len(UpperChars) : CharAt(UpperChars, k) = c
IsLowerChar(c) == \E k \in 1..Len(LowerChars) : CharAt(LowerChars, k) = c
IsDigitChar(c) == \E k \in 1..Len(Digits) : CharAt(Digits, k) = c
\* [a-zA-Z0-9] and \w of re
IsAlnumChar(c) == IsUpperChar(c) \/ IsLowerChar(c) \/ IsDigitChar(c)
IsWordChar(c) == IsAlnumChar(c) \/ c = "_"
\* \s of re, and what str.strip() strips
IsSpaceChar(c) == c \in {" ", "\n", "\t", "\r"}

LowerChar(c) ==
    IF IsUpperChar(c)
    THEN CharAt(LowerChars, CHOOSE k \in 1..Len(UpperChars) : CharAt(UpperChars, k) = c)
    ELSE c
UpperChar(c) ==
    IF IsLowerChar(c)
    THEN CharAt(UpperChars, CHOOSE k \in 1..Len(LowerChars) : CharAt(LowerChars, k) = c)
    ELSE c

\* s.lower(), s.upper()
RECURSIVE Lower(_)
Lower(s) == IF s = "" THEN "" ELSE LowerChar(CharAt(s, 1)) \o Lower(SubSeq(s, 2, Len(s)))
RECURSIVE Upper(_)
Upper(s) == IF s = "" THEN "" ELSE UpperChar(CharAt(s, 1)) \o Upper(SubSeq(s, 2, Len(s)))

\* s.strip()
RECURSIVE LStrip(_)
LStrip(s) ==
    IF s # "" /\ IsSpaceChar(CharAt(s, 1)) THEN LStrip(SubSeq(s, 2, Len(s))) ELSE s
RECURSIVE RStrip(_)
RStrip(s) ==
    IF s # "" /\ IsSpaceChar(CharAt(s, Len(s))) THEN RStrip(SubSeq(s, 1, Len(s) - 1)) ELSE s
Strip(s) == RStrip(LStrip(s))

\* a word boundary (\b of re) between the characters i - 1 and i of s
WordBoundary(s, i) ==
    LET before == i > 1 /\ IsWordChar(CharAt(s, i - 1))
        after == i <= Len(s) /\ IsWordChar(CharAt(s, i))
    IN  before # after

\* The grave accent, which a TLA+ string cannot hold: the texts of this
\* model write it as @, and hold no @ of their own
Backtick == "@"

\* The URL pattern of the agents: http:// or https:// and then one or more
\* characters that are no white space and none of the excluded marks
UrlChar(c) ==
    /\ ~IsSpaceChar(c)
    /\ c \notin {"<", ">", "\"", "{", "}", "|", "\\", "^", Backtick, "[", "]"}
UrlAt(s, i) ==
    \/ At(s, i, "http://") /\ i + 7 <= Len(s) /\ UrlChar(CharAt(s, i + 7))
    \/ At(s, i, "https://") /\ i + 8 <= Len(s) /\ UrlChar(CharAt(s, i + 8))
HasUrl(s) == \E i \in 1..Len(s) : UrlAt(s, i)

----------------------------------------------------------------------------
(* The agents as the router sees them: name, description, usage example
   and the can_handle predicate of each *)

Agents ==
    {"AirtableAgent", "APICallerAgent", "FileReaderAgent",
     "MarkdownFormatterAgent", "URLFetcherAgent"}

\* Two agents registered under one name
get_name_copied(agent) ==
    CASE agent = "AirtableAgent" -> "airtable"
      [] agent = "APICallerAgent" -> "api_caller"
      [] agent = "FileReaderAgent" -> "file_agent"
      [] agent = "MarkdownFormatterAgent" -> "markdown_formatter"
      [] agent = "URLFetcherAgent" -> "file_agent"

get_name(agent) ==
    CASE agent = "AirtableAgent" -> "airtable"
      [] agent = "APICallerAgent" -> "api_caller"
      [] agent = "FileReaderAgent" -> "file_agent"
      [] agent = "MarkdownFormatterAgent" -> "markdown_formatter"
      [] agent = "URLFetcherAgent" -> "url_fetcher"

get_description(agent) ==
    CASE agent = "AirtableAgent" ->
           "Interacts with Airtable databases using the pyairtable library for CRUD operations"
      [] agent = "APICallerAgent" ->
           "Calls APIs by reading documentation and forming requests from natural language"
      [] agent = "FileReaderAgent" ->
           "Reads and writes local files (JSON, CSV, TXT, MD, LOG) within the project directory"
      [] agent = "MarkdownFormatterAgent" ->
           "Formats text and data into well-structured Markdown with proper headings, lists, tables, and code blocks"
      [] agent = "URLFetcherAgent" ->
           "Fetches content from URLs and provides summaries"

get_usage_example(agent) ==
    CASE agent = "AirtableAgent" -> "airtable: List all records from Projects table"
      [] agent = "APICallerAgent" ->
           "api_call: docs=https://api.example.com/docs endpoint=https://api.example.com Get all users"
      [] agent = "FileReaderAgent" ->
           "file:artefacts/data.json or save to artefacts/results.json or write to artefacts/output.txt"
      [] agent = "MarkdownFormatterAgent" ->
           "format_markdown: Convert this data into a nice table"
      [] agent = "URLFetcherAgent" -> "Please summarize https://example.com/article"

\* APICallerAgent.can_handle without the docs= pattern
APICallerAgent_can_handle_prefix_only(text) ==
    Contains(Lower(text), "api_call:")

\* APICallerAgent.can_handle: 'api_call:' in message.lower(), or
\* re.search(r'docs=https?://', text, re.IGNORECASE)
APICallerAgent_can_handle(text) ==
    \/ Contains(Lower(text), "api_call:")
    \/ Contains(Lower(text), "docs=http://")
    \/ Contains(Lower(text), "docs=https://")

\* URLFetcherAgent.can_handle: the URL pattern, case-sensitive
URLFetcherAgent_can_handle(text) == HasUrl(text)

\* FileReaderAgent.can_handle: a trigger phrase or a supported extension
\* anywhere in the lower-cased text
FileTriggers == {"file:", "read file", "write file", "save to", "save as", "write to"}
SUPPORTED_EXTENSIONS == {".json", ".csv", ".txt", ".pdf", ".md", ".log"}
FileReaderAgent_can_handle(text) ==
    \/ \E trigger \in FileTriggers : Contains(Lower(text), trigger)
    \/ \E ext \in SUPPORTED_EXTENSIONS : Contains(Lower(text), ext)

\* MarkdownFormatterAgent.can_handle
MarkdownFormatterAgent_can_handle(text) ==
    LET text_lower == Lower(text)
    IN  \/ Contains(text_lower, "format_markdown:") \/ Contains(text_lower, "markdown:")
        \/ Contains(text_lower, "to markdown") \/ Contains(text_lower, "as markdown")
        \/ Contains(text_lower, "convert to markdown")
        \/ Contains(text_lower, "format") /\ Contains(text_lower, "markdown")
        \/ Contains(text_lower, "beautify") /\ Contains(text_lower, "markdown")
        \/ /\ Contains(text_lower, "clean up")
           /\ Contains(text_lower, "markdown") \/ Contains(text_lower, "md")

\* re.search(r'\b(app|tbl)[a-zA-Z0-9]+\b', text)
AirtableIdAt(s, i) ==
    /\ At(s, i, "app") \/ At(s, i, "tbl")
    /\ WordBoundary(s, i)
    /\ \E j \in (i + 3)..Len(s) :
         /\ \A k \in (i + 3)..j : IsAlnumChar(CharAt(s, k))
         /\ WordBoundary(s, j + 1)
AirtableOperations == {"list", "get", "create", "update", "delete", "search", "find", "records"}
\* AirtableAgent.can_handle
AirtableAgent_can_handle(text) ==
    \/ Contains(Lower(text), "airtable:")
    \/ \E i \in 1..Len(text) : AirtableIdAt(text, i)
    \/ /\ Contains(Lower(text), "airtable")
       /\ \E op \in AirtableOperations : Contains(Lower(text), op)

can_handle(agent, text) ==
    CASE agent = "AirtableAgent" -> AirtableAgent_can_handle(text)
      [] agent = "APICallerAgent" -> APICallerAgent_can_handle(text)
      [] agent = "FileReaderAgent" -> FileReaderAgent_can_handle(text)
      [] agent = "MarkdownFormatterAgent" -> MarkdownFormatterAgent_can_handle(text)
      [] agent = "URLFetcherAgent" -> URLFetcherAgent_can_handle(text)

----------------------------------------------------------------------------
(* The Dispatch Router: route(message, context).  The registry is an
   ordered sequence of agents, most specific first, the generic URL
   fetcher last.  The router walks it in order, invokes process of the
   first agent whose can_handle is true and returns its text; a fault of
   process becomes an error text that names the agent; when no agent
   matches, the help listing is returned. *)

\* The registries: every order of the specific agents, then the URL fetcher
Registries ==
    {Append(r, "URLFetcherAgent") :
        r \in {q \in [1..4 -> Agents \ {"URLFetcherAgent"}] :
                  \A i, j \in 1..4 : i # j => q[i] # q[j]}}

\* Message texts, alone and in pairs
Fragments ==
    {"api_call: list users",
     "docs=https://d.example.com/api",
     "DOCS=HTTPS://D.EXAMPLE.COM/API",
     "https://example.com/a1",
     "airtable: list records",
     "see tbl9 of app_1",
     "file:artefacts/data.json",
     "markdown: a, b",
     "hello there"}
RouteMessages ==
    Fragments \cup {a \o " " \o b : a, b \in Fragments}

\* What process of the selected agent does: it returns its text, or it
\* raises
ProcessOutcomes ==
    {[kind |-> "returned"],
     [kind |-> "raised", reason |-> "AttributeError"],
     [kind |-> "raised", reason |-> "UnboundLocalError"]}

\* One entry of the help listing
HelpEntry(agent) ==
    [name |-> get_name(agent),
     description |-> get_description(agent),
     example |-> get_usage_example(agent)]

\* The help listing: one entry per registered agent, in registry order,
\* and a pointer to the help operation
HelpListing(registry) ==
    [kind |-> "help",
     entries |-> [i \in 1..Len(registry) |-> HelpEntry(registry[i])],
     pointer |-> "help"]

\* A router that goes on to the next agent when process fails
RouteFaultFallsThrough(r, outcome) ==
    LET agent == r.registry[r.index]
    IN  IF outcome.kind = "returned"
        THEN [r EXCEPT !.pc = "done",
                       !.invoked = Append(r.invoked, agent),
                       !.ret = [kind |-> "text", by |-> get_name(agent)]]
        ELSE [r EXCEPT !.pc = "route", !.index = r.index + 1,
                       !.invoked = Append(r.invoked, agent),
                       !.raised = Append(r.raised, [agent |-> agent, reason |-> outcome.reason])]

\* The router's handling of what process did: its text is returned as it
\* is, its fault is caught and becomes an error text
RouteOutcome(r, outcome) ==
    LET agent == r.registry[r.index]
    IN  IF outcome.kind = "returned"
        THEN [r EXCEPT !.pc = "done",
                       !.invoked = Append(r.invoked, agent),
                       !.ret = [kind |-> "text", by |-> get_name(agent)]]
        ELSE [r EXCEPT !.pc = "done",
                       !.invoked = Append(r.invoked, agent),
                       !.raised = Append(r.raised, [agent |-> agent, reason |-> outcome.reason]),
                       !.ret = [kind |-> "error", capability |-> get_name(agent),
                                reason |-> outcome.reason]]

callerVars ==
    <<pc, message, start_page, visited_urls, links_to_visit, docs_items,
      page_num, fetch_failures, fetch_log, docs_content, attempt,
      api_call_info, result, previous_error, net, synth_log, exec_log,
      format_call, ret>>

\* The API caller agent is not running
IdleCaller ==
    /\ pc = "idle"
    /\ message = Null
    /\ start_page = "none"
    /\ visited_urls = {}
    /\ links_to_visit = <<>>
    /\ docs_items = <<>>
    /\ page_num = 0
    /\ fetch_failures = 0
    /\ fetch_log = <<>>
    /\ docs_content = NoText
    /\ attempt = 0
    /\ api_call_info = Null
    /\ result = Null
    /\ previous_error = Null
    /\ net = NoNetwork
    /\ synth_log = <<>>
    /\ exec_log = <<>>
    /\ format_call = Null
    /\ ret = NoReturn

InitRoute ==
    /\ router \in [pc : {"route"}, message : RouteMessages, registry : Registries,
                   index : {1}, invoked : {<<>>}, raised : {<<>>},
                   ret : {[kind |-> "none"]}]
    /\ IdleBut("router")
    /\ IdleCaller

\* The walk of the registry: the agent at index is asked
RouteAsk ==
    /\ router.pc = "route"
    /\ router.index <= Len(router.registry)
    /\ router' = IF can_handle(router.registry[router.index], router.message)
                 THEN [router EXCEPT !.pc = "process"]
                 ELSE [router EXCEPT !.index = router.index + 1]
    /\ UNCHANGED <<callerVars, synth, files, creds, chat, fetcher>>

\* process of the selected agent is invoked
RouteProcess ==
    /\ router.pc = "process"
    /\ \E outcome \in ProcessOutcomes : router' = RouteOutcome(router, outcome)
    /\ UNCHANGED <<callerVars, synth, files, creds, chat, fetcher>>

\* No agent matched
RouteHelp ==
    /\ router.pc = "route"
    /\ router.index > Len(router.registry)
    /\ router' = [router EXCEPT !.pc = "done", !.ret = HelpListing(router.registry)]
    /\ UNCHANGED <<callerVars, synth, files, creds, chat, fetcher>>

NextRoute ==
    \/ RouteAsk
    \/ RouteProcess
    \/ RouteHelp

SpecRoute == InitRoute /\ [][NextRoute]_vars

----------------------------------------------------------------------------
(* The request synthesizer on the generator's reply, character by
   character: the fence stripping of lines 720-728, json.loads, and the
   api key injection *)

Fence == Backtick \o Backtick \o Backtick

\* re.sub(r'^```(?:json)?\s*', '', s) that leaves the language tag in place
SubLeadingFenceNoTag(s) ==
    IF StartsWith(s, Fence) THEN LStrip(SubSeq(s, Len(Fence) + 1, Len(s))) ELSE s

\* re.sub(r'^```(?:json)?\s*', '', s)
SubLeadingFence(s) ==
    IF ~StartsWith(s, Fence) THEN s
    ELSE LET rest == SubSeq(s, Len(Fence) + 1, Len(s))
             untagged == IF StartsWith(rest, "json")
                         THEN SubSeq(rest, Len("json") + 1, Len(rest)) ELSE rest
         IN  LStrip(untagged)

\* re.sub(r'\s*```$', '', s): $ is the end of s, or the place before a
\* newline that ends s
SubTrailingFence(s) ==
    IF EndsWith(s, Fence)
    THEN RStrip(SubSeq(s, 1, Len(s) - Len(Fence)))
    ELSE IF EndsWith(s, Fence \o "\n")
         THEN RStrip(SubSeq(s, 1, Len(s) - Len(Fence) - 1)) \o "\n"
         ELSE s

\* Lines 720-728: the text handed to json.loads
StripFences(llm_response) ==
    LET stripped == Strip(llm_response)
    IN  IF StartsWith(stripped, Fence)
        THEN Strip(SubTrailingFence(SubLeadingFence(stripped)))
        ELSE stripped

\* JSON object texts and the values json.loads gives for them
JsonObjects ==
    <<[text |-> "{\"method\": \"GET\"}",
       value |-> [method |-> Str("GET")]],
      [text |-> "{\"method\": \"GET\", \"headers\": {}}",
       value |-> [method |-> Str("GET"), headers |-> EmptyDict]],
      [text |-> "{\"method\": \"GET\", \"headers\": {\"Accept\": \"text/csv\"}}",
       value |-> [method |-> Str("GET"), headers |-> Dict([Accept |-> "text/csv"])]],
      [text |-> "{\"method\": \"GET\", \"headers\": {\"Authorization\": \"Bearer YOUR_API_KEY\"}}",
       value |-> [method |-> Str("GET"),
                  headers |-> Dict([Authorization |-> "Bearer YOUR_API_KEY"])]],
      [text |-> "{\"method\": \"GET\", \"headers\": {\"authorization\": \"Bearer YOUR_API_KEY\"}}",
       value |-> [method |-> Str("GET"),
                  headers |-> Dict([authorization |-> "Bearer YOUR_API_KEY"])]],
      [text |-> "{\"method\": \"GET\", \"headers\": null}",
       value |-> [method |-> Str("GET"), headers |-> Null]],
      [text |-> "{\n  \"method\": \"GET\",\n  \"explanation\": \"json in @@@ fences\"\n}",
       value |-> [method |-> Str("GET"), explanation |-> Str("json in @@@ fences")]]>>

\* json.loads(text): white space around the document is skipped; a text
\* that is none of the documents above raises JSONDecodeError
json_loads(text) ==
    LET hits == {k \in DOMAIN JsonObjects : JsonObjects[k].text = Strip(text)}
    IN  IF hits = {} THEN [kind |-> "not_json"]
        ELSE [kind |-> "json", value |-> Dict(JsonObjects[CHOOSE k \in hits : TRUE].value)]

\* Lines 720-731: from the generator's content to the parsed reply
ParseContent(llm_response) == json_loads(StripFences(llm_response))

\* How the generator wraps a JSON text
Wrappers == {"none", "json", "bare", "JSON"}
Wrap(wrapper, text) ==
    CASE wrapper = "none" -> text
      [] wrapper = "json" -> Fence \o "json" \o "\n" \o text \o "\n" \o Fence
      [] wrapper = "bare" -> Fence \o "\n" \o text \o "\n" \o Fence
      [] wrapper = "JSON" -> Fence \o "JSON" \o "\n" \o text \o "\n" \o Fence
LeadingSpace == {"", " ", "\n\t"}
TrailingSpace == {"", " \n"}

\* Documentation texts, and what lines 742-751 find in them
DocTexts ==
    {"", "Send a Bearer token.", "Set the X-API-Key header.",
     "Pass your APIKEY.", "Use X-Api-Key or a BEARER token.", "No authentication."}
Mentions(docs_text) ==
    {w \in {"bearer", "x-api-key", "apikey"} : Contains(Lower(docs_text), w)}

InitSynth ==
    /\ synth \in [pc : {"reply"}, object : DOMAIN JsonObjects, wrapper : Wrappers,
                  before : LeadingSpace, after : TrailingSpace,
                  docs_text : DocTexts, api_key : BOOLEAN, formed : {Null}]
    /\ IdleBut("synth")
    /\ IdleCaller

\* _form_api_call_with_llm from the generator's content on
SynthesizeReply ==
    /\ synth.pc = "reply"
    /\ LET content == synth.before
                        \o Wrap(synth.wrapper, JsonObjects[synth.object].text)
                        \o synth.after
           docs == Corpus(Text("crawl", Len(synth.docs_text), "", FALSE),
                          Mentions(synth.docs_text))
       IN  synth' = [synth EXCEPT
                       !.pc = "done",
                       !.formed = _form_api_call_with_llm(docs, synth.api_key,
                                                          ParseContent(content))]
    /\ UNCHANGED <<callerVars, router, files, creds, chat, fetcher>>

NextSynth == SynthesizeReply

SpecSynth == InitSynth /\ [][NextSynth]_vars

----------------------------------------------------------------------------
(* The file agent: _handle_read and _handle_write from the extracted path
   on, over a disk with symbolic links.  A path is absolute or relative and
   is a sequence of components; a node of the disk is the sequence of
   components from the root. *)

AbsPath(parts) == [abs |-> TRUE, parts |-> parts]
RelPath(parts) == [abs |-> FALSE, parts |-> parts]

\* self.base_dir, and the working directories of the server process
base_dir == <<"app">>
WorkingDirs == {<<"app">>, <<>>}

\* The disk before the request: directories, regular files, and the
\* symbolic links that may be there with their targets
Dirs0 == {<<>>, <<"app">>, <<"app", "artefacts">>, <<"etc">>, <<"app_evil">>}
Regs0 ==
    {<<"app", "artefacts", "data.json">>, <<"app", "artefacts", "data_1.json">>,
     <<"app", "artefacts", "notes.txt">>, <<"app", "artefacts", "picture.png">>,
     <<"etc", "secret.txt">>, <<"app_evil", "x.txt">>}
LinkTarget ==
    (<<"app", "artefacts", "out">> :> AbsPath(<<"etc">>))
    @@ (<<"app", "artefacts", "link.txt">> :> RelPath(<<"..", "..", "etc", "secret.txt">>))
    @@ (<<"app", "artefacts", "in">> :> RelPath(<<".">>))
    @@ (<<"app", "artefacts", "notes_1.txt">> :> AbsPath(<<"etc", "new.txt">>))

\* The paths asked for
RequestPaths ==
    {RelPath(<<"artefacts", "data.json">>),
     RelPath(<<"artefacts", "..", "..", "etc", "secret.txt">>),
     AbsPath(<<"etc", "secret.txt">>),
     AbsPath(<<"app_evil", "x.txt">>),
     RelPath(<<"artefacts", "out", "secret.txt">>),
     RelPath(<<"artefacts", "link.txt">>),
     AbsPath(<<"app", "artefacts", "notes.txt">>),
     RelPath(<<"..", "app", "artefacts", "notes.txt">>),
     RelPath(<<"artefacts", "new", "report.md">>),
     RelPath(<<"notes.txt">>),
     RelPath(<<"artefacts", "picture.png">>),
     RelPath(<<"artefacts">>),
     RelPath(<<"artefacts", "in", "data.json">>)}

\* Path resolution as the kernel and os.path.realpath do it: component by
\* component, a link replaced by its target, ".." taken on the resolved
\* path.  ok is FALSE when a step is taken from what is not a directory
\* (the kernel fails there, realpath goes on).
RECURSIVE Walk(_, _, _, _)
Walk(disk, cur, rest, ok) ==
    IF rest = <<>> THEN [node |-> cur, ok |-> ok]
    ELSE LET c == Head(rest)
             more == Tail(rest)
             here == ok /\ cur \in disk.dirs
         IN  IF c = "" THEN Walk(disk, cur, more, ok)
             ELSE IF c = "." THEN Walk(disk, cur, more, here)
             ELSE IF c = ".."
                  THEN Walk(disk, IF cur = <<>> THEN cur ELSE SubSeq(cur, 1, Len(cur) - 1),
                            more, here)
                  ELSE LET new == Append(cur, c)
                       IN  IF new \in disk.links
                           THEN Walk(disk, IF LinkTarget[new].abs THEN <<>> ELSE cur,
                                     LinkTarget[new].parts \o more, here)
                           ELSE Walk(disk, new, more, here)

Lookup(disk, cwd, path) == Walk(disk, IF path.abs THEN <<>> ELSE cwd, path.parts, TRUE)

\* os.path.realpath, os.path.abspath (no link is followed), os.path.exists
realpath(disk, cwd, path) == Lookup(disk, cwd, path).node
abspath(disk, cwd, path) == Lookup([disk EXCEPT !.links = {}], cwd, path).node
exists(disk, cwd, path) ==
    LET at == Lookup(disk, cwd, path) IN at.ok /\ at.node \in disk.dirs \cup disk.regs

\* os.path.isabs, join, dirname, basename
isabs(path) == path.abs
join(a, b) == IF b.abs THEN b ELSE [a EXCEPT !.parts = a.parts \o b.parts]
dirname(path) == [path EXCEPT !.parts = SubSeq(path.parts, 1, Len(path.parts) - 1)]
basename(path) == path.parts[Len(path.parts)]

\* os.path.splitext of a file name: from the last dot on, unless only dots
\* come before it
RECURSIVE LastDot(_, _)
LastDot(s, i) == IF i = 0 THEN 0 ELSE IF CharAt(s, i) = "." THEN i ELSE LastDot(s, i - 1)
splitext(name) ==
    LET d == LastDot(name, Len(name))
    IN  IF d = 0 \/ \A k \in 1..(d - 1) : CharAt(name, k) = "."
        THEN <<name, "">>
        ELSE <<SubSeq(name, 1, d - 1), SubSeq(name, d, Len(name))>>

\* os.path.commonpath of two resolved paths
RECURSIVE commonpath(_, _)
commonpath(a, b) ==
    IF a = <<>> \/ b = <<>> \/ Head(a) # Head(b) THEN <<>>
    ELSE <<Head(a)>> \o commonpath(Tail(a), Tail(b))

\* _validate_file_path that normalises the path without following links
_validate_file_path_lexical(disk, cwd, file_path) ==
    LET absolute_path == abspath(disk, cwd, file_path)
        real_base_dir == realpath(disk, cwd, AbsPath(base_dir))
    IN  IF commonpath(absolute_path, real_base_dir) # real_base_dir
        THEN "security_error" ELSE "valid"

\* _validate_file_path: "valid" stands for None
_validate_file_path(disk, cwd, file_path) ==
    LET absolute_path == realpath(disk, cwd, file_path)
        real_base_dir == realpath(disk, cwd, AbsPath(base_dir))
    IN  IF commonpath(absolute_path, real_base_dir) # real_base_dir
        THEN "security_error" ELSE "valid"

WRITABLE_EXTENSIONS == {".json", ".csv", ".txt", ".md", ".log"}

\* _should_overwrite (lines 373-385): a keyword is part of the lower-cased
\* message
overwrite_keywords ==
    {"overwrite", "replace", "write over", "rewrite", "update the file", "update file"}
_should_overwrite(text) ==
    \E keyword \in overwrite_keywords : Contains(Lower(text), keyword)

\* str(counter)
RECURSIVE Decimal(_)
Decimal(n) ==
    IF n < 10 THEN CharAt(Digits, n + 1)
    ELSE Decimal(n \div 10) \o CharAt(Digits, (n % 10) + 1)

\* _get_unique_filename: the counters tried and the path that comes back
Renamed(file_path, counter) ==
    LET parts == splitext(basename(file_path))
    IN  join(dirname(file_path),
             RelPath(<<parts[1] \o "_" \o Decimal(counter) \o parts[2]>>))
\* A file that exists is written over whatever the message says
_get_unique_filename_in_place(disk, cwd, file_path) == [path |-> file_path, tried |-> 0]
_get_unique_filename(disk, cwd, file_path) ==
    IF ~exists(disk, cwd, file_path) THEN [path |-> file_path, tried |-> 0]
    ELSE LET nodes == Cardinality(disk.dirs \cup disk.regs \cup disk.links)
             free == {k \in 1..(nodes + 1) : ~exists(disk, cwd, Renamed(file_path, k))}
             counter == CHOOSE k \in free : \A other \in free : k <= other
         IN  [path |-> Renamed(file_path, counter), tried |-> counter]

\* One step of the agent on the disk
DiskOp(op, node) == [op |-> op, node |-> node]

\* _handle_read from line 107 on: the outcome, the steps taken on the disk
\* in order, and the disk afterwards
_handle_read(disk, cwd, file_path) ==
    LET security_error == _validate_file_path(disk, cwd, file_path)
        at == Lookup(disk, cwd, file_path)
        ext == Lower(splitext(basename(file_path))[2])
        validated == <<DiskOp("validate", realpath(disk, cwd, file_path))>>
        probed == Append(validated, DiskOp("exists", at.node))
        opened == Append(probed, DiskOp("open_r", at.node))
    IN  IF security_error # "valid"
        THEN [ret |-> security_error, log |-> validated, disk |-> disk]
        ELSE IF ~exists(disk, cwd, file_path)
        THEN [ret |-> "not_found", log |-> probed, disk |-> disk]
        ELSE IF ext \notin SUPPORTED_EXTENSIONS
        THEN [ret |-> "unsupported", log |-> probed, disk |-> disk]
        ELSE IF at.node \in disk.regs
        THEN [ret |-> "summary", log |-> opened, disk |-> disk]
        ELSE [ret |-> "read_error", log |-> opened, disk |-> disk]

\* Lines 158-164: the path a write request is taken to mean
WritePath(file_path) ==
    LET in_artefacts ==
            IF ~isabs(file_path) /\ ~StartsWith(file_path.parts[1], "artefacts")
            THEN join(RelPath(<<"artefacts">>), file_path) ELSE file_path
    IN  IF ~isabs(in_artefacts) THEN join(AbsPath(base_dir), in_artefacts)
        ELSE in_artefacts

\* The prefixes of a node, the node included
Ancestors(node) == {SubSeq(node, 1, k) : k \in 0..Len(node)}

\* _handle_write from line 158 on
_handle_write(disk, cwd, requested, text) ==
    LET file_path == WritePath(requested)
        security_error == _validate_file_path(disk, cwd, file_path)
        ext == Lower(splitext(basename(file_path))[2])
        validated == <<DiskOp("validate", realpath(disk, cwd, file_path))>>
        taken == exists(disk, cwd, file_path)
        unique == IF taken /\ ~_should_overwrite(text)
                  THEN _get_unique_filename(disk, cwd, file_path)
                  ELSE [path |-> file_path, tried |-> 0]
        probes == [k \in 1..unique.tried |->
                     DiskOp("exists", realpath(disk, cwd, Renamed(file_path, k)))]
        probed == Append(validated, DiskOp("exists", realpath(disk, cwd, file_path)))
                    \o probes
        folder == Lookup(disk, cwd, dirname(unique.path))
        made == Append(probed, DiskOp("makedirs", folder.node))
        folders == [disk EXCEPT !.dirs = disk.dirs \cup Ancestors(folder.node)]
        target == Lookup(folders, cwd, unique.path)
        opened == Append(made, DiskOp("open_w", target.node))
        written == [folders EXCEPT !.regs = folders.regs \cup {target.node}]
    IN  IF security_error # "valid"
        THEN [ret |-> security_error, log |-> validated, disk |-> disk]
        ELSE IF ext \notin WRITABLE_EXTENSIONS
        THEN [ret |-> "cannot_write", log |-> validated, disk |-> disk]
        ELSE IF Ancestors(folder.node) \cap disk.regs # {}
        THEN [ret |-> "raised", log |-> made, disk |-> disk]
        ELSE IF target.ok /\ target.node \notin folders.dirs
        THEN [ret |-> "wrote", log |-> opened, disk |-> written]
        ELSE [ret |-> "write_error", log |-> opened, disk |-> folders]

\* What a write request says around the path; the paths of the model hold
\* no keyword
WriteMessages ==
    {"write this to", "save as", "update", "Overwrite", "please REPLACE the old one",
     "write over", "rewrite", "update the file", "Update File"}

InitFiles ==
    /\ \E op \in {"read", "write"}, path \in RequestPaths, cwd \in WorkingDirs,
          links \in SUBSET DOMAIN LinkTarget :
       \E text \in (IF op = "read" THEN {"read"} ELSE WriteMessages) :
          files = [pc |-> "request", op |-> op, path |-> path, cwd |-> cwd,
                   message |-> text,
                   disk |-> [dirs |-> Dirs0, regs |-> Regs0, links |-> links],
                   log |-> <<>>, ret |-> "none"]
    /\ IdleBut("files")
    /\ IdleCaller

Handled(f, outcome) ==
    [f EXCEPT !.pc = "done", !.ret = outcome.ret, !.log = outcome.log,
              !.disk = outcome.disk]

HandleRead ==
    /\ files.pc = "request"
    /\ files.op = "read"
    /\ files' = Handled(files, _handle_read(files.disk, files.cwd, files.path))
    /\ UNCHANGED <<callerVars, router, synth, creds, chat, fetcher>>

HandleWrite ==
    /\ files.pc = "request"
    /\ files.op = "write"
    /\ files' = Handled(files, _handle_write(files.disk, files.cwd, files.path,
                                              files.message))
    /\ UNCHANGED <<callerVars, router, synth, creds, chat, fetcher>>

NextFiles ==
    \/ HandleRead
    \/ HandleWrite

SpecFiles == InitFiles /\ [][NextFiles]_vars

----------------------------------------------------------------------------
(* The credential manager: the store _parse_env_file builds from the
   environment and the lines of .env, in insertion order, and get_credential
   on it *)

\* re.sub(r'[^\w\s]', '', s)
RECURSIVE RemoveSpecial(_)
RemoveSpecial(s) ==
    IF s = "" THEN ""
    ELSE (IF IsWordChar(CharAt(s, 1)) \/ IsSpaceChar(CharAt(s, 1)) THEN CharAt(s, 1) ELSE "")
         \o RemoveSpecial(SubSeq(s, 2, Len(s)))

\* re.sub(r'\s+', '_', s)
RECURSIVE SpaceToUnderscore(_)
SpaceToUnderscore(s) ==
    IF s = "" THEN ""
    ELSE IF IsSpaceChar(CharAt(s, 1)) THEN "_" \o SpaceToUnderscore(LStrip(s))
    ELSE CharAt(s, 1) \o SpaceToUnderscore(SubSeq(s, 2, Len(s)))

\* s.split(sep) for a separator of one character
RECURSIVE Split(_, _)
Split(s, sep) ==
    LET hits == {i \in 1..Len(s) : CharAt(s, i) = sep}
    IN  IF hits = {} THEN <<s>>
        ELSE LET i == CHOOSE h \in hits : \A other \in hits : h <= other
             IN  <<SubSeq(s, 1, i - 1)>> \o Split(SubSeq(s, i + 1, Len(s)), sep)

_normalize_search_term(term) == SpaceToUnderscore(RemoveSpecial(Lower(term)))

\* credentials[key] = value on a dict kept as the sequence of its items in
\* insertion order
DictSet(credentials, key, value) ==
    IF \E k \in DOMAIN credentials : credentials[k].key = key
    THEN [k \in DOMAIN credentials |->
            IF credentials[k].key = key THEN [key |-> key, value |-> value]
            ELSE credentials[k]]
    ELSE Append(credentials, [key |-> key, value |-> value])

\* Lines 52-54: the variables of the environment
RECURSIVE LoadEnviron(_, _)
LoadEnviron(credentials, environ) ==
    IF environ = <<>> THEN credentials
    ELSE LoadEnviron(IF Head(environ).value # "" /\ ~StartsWith(Head(environ).key, "_")
                     THEN DictSet(credentials, Lower(Head(environ).key), Head(environ).value)
                     ELSE credentials,
                     Tail(environ))

\* Lines 60-78: the lines "Name: value" of .env
RECURSIVE LoadNatural(_, _)
LoadNatural(credentials, lines) ==
    IF lines = <<>> THEN credentials
    ELSE LoadNatural(IF Strip(Head(lines).value) # ""
                     THEN DictSet(credentials,
                                  SpaceToUnderscore(RemoveSpecial(Lower(Strip(Head(lines).name)))),
                                  Strip(Head(lines).value))
                     ELSE credentials,
                     Tail(lines))

_parse_env_file(environ, lines) == LoadNatural(LoadEnviron(<<>>, environ), lines)

\* The first item of the dict, in insertion order, whose key passes a test
FirstMatch(credentials, hits) ==
    credentials[CHOOSE k \in hits : \A other \in hits : k <= other].value

\* _fuzzy_match: exact, substring, keyword, reverse substring
_fuzzy_match(search_term, credentials) ==
    LET normalized_search == _normalize_search_term(search_term)
        exact == {k \in DOMAIN credentials : credentials[k].key = normalized_search}
        partial == {k \in DOMAIN credentials : Contains(credentials[k].key, normalized_search)}
        search_words == Split(normalized_search, "_")
        keyword == {k \in DOMAIN credentials :
                       \A i \in DOMAIN search_words :
                           Contains(credentials[k].key, search_words[i])}
        reverse == {k \in DOMAIN credentials : Contains(normalized_search, credentials[k].key)}
    IN  IF exact # {} THEN Str(FirstMatch(credentials, exact))
        ELSE IF partial # {} THEN Str(FirstMatch(credentials, partial))
        ELSE IF Len(search_words) > 1 /\ keyword # {}
        THEN Str(FirstMatch(credentials, keyword))
        ELSE IF reverse # {} THEN Str(FirstMatch(credentials, reverse))
        ELSE Null

\* get_credential(name) with the default None
get_credential(name, credentials) ==
    IF name = "" THEN Null
    ELSE LET value == _fuzzy_match(name, credentials)
         IN  IF Truthy(value) THEN value ELSE Null

\* The environments and .env files of the model
Environs == {<<>>, <<[key |-> "DATABASE_URL", value |-> "db1"]>>}
EnvLines ==
    {[name |-> "Airtable personal access token", value |-> "pat1"],
     [name |-> "Airtable base id", value |-> "app1"],
     [name |-> "Airtable table id", value |-> "tbl1"]}
EnvFiles ==
    {<<a>> : a \in EnvLines}
    \cup {f \in EnvLines \X EnvLines : f[1] # f[2]}
    \cup {f \in EnvLines \X EnvLines \X EnvLines :
             f[1] # f[2] /\ f[1] # f[3] /\ f[2] # f[3]}

\* The names get_credential is called with
SearchTerms ==
    {"airtable", "Airtable", "airtable token", "AIRTABLE TOKEN", "token airtable",
     "personal access token", "Access Token", "base", "Base ID", "table", "table id",
     "airtable base id", "airtable base", "airtable table id", "airtable table",
     "airtable_base_id", "airtable_table_id", "airtable_personal_access_token",
     "Airtable-Base", "url", "database", "github", ""}

InitCreds ==
    /\ \E environ \in Environs, lines \in EnvFiles, name \in SearchTerms :
          creds = [pc |-> "lookup", environ |-> environ, lines |-> lines,
                   name |-> name, cache |-> Null, ret |-> Null]
    /\ IdleBut("creds")
    /\ IdleCaller

\* get_credential on the first access: the cache is filled, then searched
GetCredential ==
    /\ creds.pc = "lookup"
    /\ LET credentials == _parse_env_file(creds.environ, creds.lines)
       IN  creds' = [creds EXCEPT !.pc = "done",
                                  !.cache = [t |-> "dict", items |-> credentials],
                                  !.ret = get_credential(creds.name, credentials)]
    /\ UNCHANGED <<callerVars, router, synth, files, chat, fetcher>>

NextCreds == GetCredential

SpecCreds == InitCreds /\ [][NextCreds]_vars

----------------------------------------------------------------------------
(* The chat-completion endpoint of src/agent.py: one POST to
   /v1/chat/completions *)

\* A Python list
List(items) == [t |-> "list", items |-> items]

\* The end of the run of URL characters that starts at i
RECURSIVE UrlEnd(_, _)
UrlEnd(s, i) == IF i < Len(s) /\ UrlChar(CharAt(s, i + 1)) THEN UrlEnd(s, i + 1) ELSE i

\* extract_url_from_text: the first match of the URL pattern, or None
extract_url_from_text(text) ==
    LET starts == {i \in 1..Len(text) : UrlAt(text, i)}
        first == CHOOSE i \in starts : \A other \in starts : i <= other
    IN  IF starts = {} THEN Null ELSE Str(SubSeq(text, first, UrlEnd(text, first)))

\* extract_search_query finds a query and a platform: the pattern
\* [Ss]earch\s+(.+?)\s+on\s+(\w+) matches with a query that is not blank
\* (a match whose query is white space only is in none of the texts here)
IsSearchQuery(text) ==
    \E i \in 1..Len(text), p \in 1..Len(text) :
        /\ At(text, i, "Search") \/ At(text, i, "search")
        /\ p >= i + 9
        /\ At(text, p, "on")
        /\ IsSpaceChar(CharAt(text, i + 6))
        /\ IsSpaceChar(CharAt(text, p - 1))
        /\ \A k \in (i + 6)..(p - 1) : CharAt(text, k) # "\n" \/ k = i + 6 \/ k = p - 1
        /\ \E k \in (i + 7)..(p - 2) : ~IsSpaceChar(CharAt(text, k))
        /\ \E q \in (p + 3)..Len(text) :
              /\ IsWordChar(CharAt(text, q))
              /\ \A k \in (p + 2)..(q - 1) : IsSpaceChar(CharAt(text, k))

\* What fetch_website_content and summarize_with_lm_studio come back with;
\* neither raises
FetchOutcomes == {"text", "truncated", "error"}
SummaryOutcomes == {"summary", "error"}

\* jsonify(...), status
HttpResponse(status, body) == [status |-> status, body |-> body]
Completion(data, response_text) ==
    HttpResponse(200, [object |-> "chat.completion",
                       model |-> Get(data.d, "model", Str("agent")),
                       content |-> response_text])
ServerError(type) == HttpResponse(500, [error |-> type])

\* chat_completions: the response, the URLs fetched and the number of calls
\* to the generator
chat_completions(data, fetched, summarized) ==
    IF data.t # "dict"
    THEN [response |-> ServerError("AttributeError"), fetches |-> <<>>, generator_calls |-> 0]
    ELSE LET messages == Get(data.d, "messages", List(<<>>))
         IN  IF messages.t = "null"
             THEN [response |-> ServerError("TypeError"), fetches |-> <<>>,
                   generator_calls |-> 0]
             ELSE IF messages.items = <<>>
             THEN [response |-> HttpResponse(400, [error |-> "No messages provided"]),
                   fetches |-> <<>>, generator_calls |-> 0]
             ELSE LET last_message == messages.items[Len(messages.items)]
                      content == Get(last_message.d, "content", Str(""))
                  IN  IF content.t # "str"
                      THEN [response |-> ServerError("TypeError"), fetches |-> <<>>,
                            generator_calls |-> 0]
                      ELSE LET url == extract_url_from_text(content.s)
                           IN  IF url # Null
                               THEN [response |->
                                        Completion(data, [kind |-> "summary", url |-> url.s,
                                                          of |-> fetched, summary |-> summarized]),
                                     fetches |-> <<url.s>>, generator_calls |-> 1]
                               ELSE [response |->
                                        Completion(data, [kind |-> IF IsSearchQuery(content.s)
                                                                   THEN "search_hint"
                                                                   ELSE "no_url"]),
                                     fetches |-> <<>>, generator_calls |-> 0]

\* The request bodies of the model
Contents ==
    {Str(""), Str("hello there"), Str("   "), Str("Search cats on Telegram"),
     Str("search the news on x"), Str("https://example.com/a1"),
     Str("see https://example.com/a1 and http://b.example.org/c"),
     Str("Search cats on https://example.com/a1"), Str("http://"), Null}
LastMessages ==
    {Dict([role |-> Str("user"), content |-> c]) : c \in Contents}
    \cup {Dict([role |-> Str("user")])}
EarlierMessages ==
    {<<>>, <<Dict([role |-> Str("user"), content |-> Str("https://old.example.com/x")])>>}
MessageLists ==
    {List(<<>>), Null}
    \cup {List(earlier \o <<last>>) : earlier \in EarlierMessages, last \in LastMessages}
RequestBodies ==
    {Null, Dict([model |-> Str("local-model")])}
    \cup {Dict([messages |-> m]) : m \in MessageLists}
    \cup {Dict([model |-> Str("local-model"), messages |-> m]) : m \in MessageLists}

InitChat ==
    /\ \E data \in RequestBodies :
          chat = [pc |-> "request", data |-> data, response |-> Null,
                  fetches |-> <<>>, generator_calls |-> 0]
    /\ IdleBut("chat")
    /\ IdleCaller

ChatCompletions ==
    /\ chat.pc = "request"
    /\ \E fetched \in FetchOutcomes, summarized \in SummaryOutcomes :
          LET outcome == chat_completions(chat.data, fetched, summarized)
          IN  chat' = [chat EXCEPT !.pc = "done",
                                   !.response = outcome.response,
                                   !.fetches = outcome.fetches,
                                   !.generator_calls = outcome.generator_calls]
    /\ UNCHANGED <<callerVars, router, synth, files, creds, fetcher>>

NextChat == ChatCompletions

SpecChat == InitChat /\ [][NextChat]_vars

----------------------------------------------------------------------------
(* The URL fetcher agent: URLFetcherAgent.process on one message *)

\* _extract_url that takes the last match
_extract_url_last(text) ==
    LET starts == {i \in 1..Len(text) : UrlAt(text, i) /\ (i = 1 \/ UrlEnd(text, i - 1) < i)}
        last == CHOOSE i \in starts : \A other \in starts : i >= other
    IN  IF starts = {} THEN Null ELSE Str(SubSeq(text, last, UrlEnd(text, last)))

\* _extract_url: urls[0] of re.findall(url_pattern, text), or None
_extract_url(text) ==
    LET starts == {i \in 1..Len(text) : UrlAt(text, i)}
        first == CHOOSE i \in starts : \A other \in starts : i <= other
    IN  IF starts = {} THEN Null ELSE Str(SubSeq(text, first, UrlEnd(text, first)))

\* What _fetch_website_content returns: the text of the page, cut when it
\* is long, or the text of the exception
PageContents ==
    {"Example Domain", "A long page...\n[Content truncated]",
     "Error fetching URL: 404 Client Error", "Error fetching URL: timed out"}
\* What _summarize_with_lm_studio returns: the generator's content (None
\* for a null content) or the text of the exception
Summaries ==
    {Str("An example page."), Str(""), Null,
     Str("Error generating summary: Connection refused")}

\* The value as an f-string writes it
Format(v) == IF v = Null THEN "None" ELSE v.s

\* URLFetcherAgent.process
URLFetcherAgent_process(text, content, summary) ==
    LET url == _extract_url(text)
    IN  IF ~Truthy(url)
        THEN [ret |-> "I couldn't find a valid URL in your message. Please provide a URL like: https://example.com/article",
              fetched |-> <<>>, summarized |-> <<>>]
        ELSE [ret |-> "Summary of " \o url.s \o ":\n\n" \o Format(summary),
              fetched |-> <<url.s>>, summarized |-> <<content>>]

\* The messages process is called with
FetcherMessages ==
    {"https://example.com/a1", "http://example.com/a1",
     "Please summarize https://example.com/article",
     "fetch https://a.example.com/x and https://b.example.com/y",
     "see (https://example.com/a1) and <http://b.example.org/c>",
     "https://example.com/a1.", "HTTPS://EXAMPLE.COM/A1 or https://example.com/a1",
     "api_call: docs=https://d.example.com/api list users",
     "xhttps://example.com/a1", "https://", "http:// https://x",
     "hello there", "www.example.com/a1", ""}

InitFetcher ==
    /\ \E text \in FetcherMessages :
          fetcher = [pc |-> "process", message |-> text, fetched |-> <<>>,
                     summarized |-> <<>>, ret |-> ""]
    /\ IdleBut("fetcher")
    /\ IdleCaller

FetcherProcess ==
    /\ fetcher.pc = "process"
    /\ \E content \in PageContents, summary \in Summaries :
          LET outcome == URLFetcherAgent_process(fetcher.message, content, summary)
          IN  fetcher' = [fetcher EXCEPT !.pc = "done", !.ret = outcome.ret,
                                         !.fetched = outcome.fetched,
                                         !.summarized = outcome.summarized]
    /\ UNCHANGED <<callerVars, router, synth, files, creds, chat>>

NextFetcher == FetcherProcess

SpecFetcher == InitFetcher /\ [][NextFetcher]_vars

----------------------------------------------------------------------------
(* The credential cache: the module global _credential_cache, the threads
   of the server that call get_credential, a thread that calls
   reload_credentials, and the edits of .env and of the environment.  A
   step is one read or one write of the global. *)

\* Bounds of the cache model: the calls of get_credential and the calls
\* of reload_credentials in a run
MaxCalls == 3
MaxReloads == 1
Threads == {1, 2}

\* load_dotenv(ENV_FILE, override=True), line 283: the bindings KEY=value
\* of the file are written to the environment.  The lines of the model
\* are lines "Name: value", which python-dotenv cannot parse as a binding
\* and passes over.
load_dotenv(environ, lines) == environ

\* The states of the environment and of .env
CacheSources ==
    {[environ |-> <<>>,
      lines |-> <<[name |-> "Airtable personal access token", value |-> "pat1"]>>],
     [environ |-> <<[key |-> "DATABASE_URL", value |-> "db1"]>>,
      lines |-> <<[name |-> "Airtable personal access token", value |-> "pat2"]>>]}
CacheNames == {"airtable", ""}

\* The dict _parse_env_file returns
Parsed(source) == [t |-> "dict", items |-> _parse_env_file(source.environ, source.lines)]

\* A thread outside get_credential; inside, the name it looks up, the
\* number of reloads there had been when it called, the dict it parsed and
\* the dict _get_credentials returned to it
Resting == [pc |-> "idle", name |-> "", epoch |-> 0, parsed |-> Null, credentials |-> Null]

InitCache ==
    /\ \E source \in CacheSources :
          creds = [pc |-> "cache",
                   source |-> source,
                   cache |-> Null,                 \* _credential_cache
                   th |-> [t \in Threads |-> Resting],
                   calls |-> 0,
                   reload_pc |-> "idle",
                   reloads |-> 0,
                   parses |-> 0,                   \* parses since the last reload
                   snap |-> Null,                  \* the first parse since the last reload
                   \* the last call that returned or raised
                   last |-> [name |-> "", epoch |-> 0, ret |-> Null]]
    /\ IdleBut("creds")
    /\ IdleCaller

CacheFrame == UNCHANGED <<callerVars, router, synth, files, chat, fetcher>>
Running == creds.pc = "cache"

\* get_credential(name), lines 191-193: an empty name returns the default
\* without touching the cache
CallGetCredential ==
    /\ Running
    /\ \E t \in Threads, name \in CacheNames :
         /\ creds.th[t].pc = "idle"
         /\ creds.calls < MaxCalls
         /\ IF name = ""
            THEN creds' = [creds EXCEPT !.calls = @ + 1,
                                        !.last = [name |-> name, epoch |-> creds.reloads,
                                                  ret |-> Null]]
            ELSE creds' = [creds EXCEPT !.calls = @ + 1,
                                        !.th[t] = [Resting EXCEPT !.pc = "test",
                                                                  !.name = name,
                                                                  !.epoch = creds.reloads]]
    /\ CacheFrame

\* Line 99: if _credential_cache is None
TestCache ==
    /\ Running
    /\ \E t \in Threads :
         /\ creds.th[t].pc = "test"
         /\ creds' = [creds EXCEPT !.th[t].pc =
                         IF creds.cache = Null THEN "parse" ELSE "return"]
    /\ CacheFrame

\* Line 100, the right-hand side: _parse_env_file() reads the environment
\* and .env
ParseSource ==
    /\ Running
    /\ \E t \in Threads :
         /\ creds.th[t].pc = "parse"
         /\ creds' = [creds EXCEPT !.th[t].pc = "assign",
                                   !.th[t].parsed = Parsed(creds.source),
                                   !.parses = @ + 1,
                                   !.snap = IF @ = Null THEN Parsed(creds.source) ELSE @]
    /\ CacheFrame

\* Line 100, the assignment to the global
AssignCache ==
    /\ Running
    /\ \E t \in Threads :
         /\ creds.th[t].pc = "assign"
         /\ creds' = [creds EXCEPT !.th[t].pc = "return",
                                   !.th[t].parsed = Null,
                                   !.cache = creds.th[t].parsed]
    /\ CacheFrame

\* Line 101: return _credential_cache reads the global again
ReturnCache ==
    /\ Running
    /\ \E t \in Threads :
         /\ creds.th[t].pc = "return"
         /\ creds' = [creds EXCEPT !.th[t].pc = "match",
                                   !.th[t].credentials = creds.cache]
    /\ CacheFrame

\* Lines 198-205: _fuzzy_match(name, credentials); with credentials None
\* the test "normalized_search in credentials" raises TypeError
MatchCredential ==
    /\ Running
    /\ \E t \in Threads :
         /\ creds.th[t].pc = "match"
         /\ LET credentials == creds.th[t].credentials
                value == IF credentials = Null THEN Raised("TypeError")
                         ELSE get_credential(creds.th[t].name, credentials.items)
            IN  creds' = [creds EXCEPT !.th[t] = Resting,
                                       !.last = [name |-> creds.th[t].name,
                                                 epoch |-> creds.th[t].epoch,
                                                 ret |-> value]]
    /\ CacheFrame

\* reload_credentials, lines 281-282: _credential_cache = None
ReloadClear ==
    /\ Running
    /\ creds.reload_pc = "idle"
    /\ creds.reloads < MaxReloads
    /\ creds' = [creds EXCEPT !.reload_pc = "load",
                              !.reloads = @ + 1,
                              !.cache = Null,
                              !.parses = 0,
                              !.snap = Null]
    /\ CacheFrame

\* reload_credentials, line 283: load_dotenv(ENV_FILE, override=True)
ReloadLoad ==
    /\ Running
    /\ creds.reload_pc = "load"
    /\ creds' = [creds EXCEPT !.reload_pc = "idle",
                              !.source.environ =
                                  load_dotenv(creds.source.environ, creds.source.lines)]
    /\ CacheFrame

\* .env or the environment is changed while the server runs
EditSource ==
    /\ Running
    /\ \E source \in CacheSources \ {creds.source} :
         creds' = [creds EXCEPT !.source = source]
    /\ CacheFrame

NextCache ==
    \/ CallGetCredential
    \/ TestCache
    \/ ParseSource
    \/ AssignCache
    \/ ReturnCache
    \/ MatchCredential
    \/ ReloadClear
    \/ ReloadLoad
    \/ EditSource

SpecCache == InitCache /\ [][NextCache]_vars

----------------------------------------------------------------------------
(* Properties of the retry loop *)

Failed4xx(res) ==
    /\ ~res.success
    /\ 400 <= res.status_code
    /\ res.status_code <= 499

\* C1: a synthesis or an execution follows the failed execution of attempt
\* n only if that execution returned a status in 400..499 and
\* n < max_retries - 1; after a failure with a 5xx status or with status 0
\* nothing more is synthesized or executed.
C1_RetryOnlyOnClientError ==
    \A i \in 1..Len(exec_log) :
        (Len(synth_log) > i \/ Len(exec_log) > i)
            => Failed4xx(exec_log[i]) /\ i - 1 < max_retries - 1

C1_Witness ==
    /\ Len(exec_log) = 2
    /\ exec_log[1].status_code = 499
    /\ exec_log[2].status_code = 500
    /\ pc = "done"

\* C2: when the first execution fails with status 422 and the second
\* synthesis and execution succeed, the loop is left through the success
\* break, _format_response is called with retry_count 1 and with the second
\* execution result, and the text it builds reports success after 1 retry.
C2_Scenario ==
    /\ pc = "done"
    /\ Len(exec_log) = 2
    /\ exec_log[1].status_code = 422
    /\ exec_log[2].success

C2_SuccessAfterOneRetry ==
    C2_Scenario =>
        /\ format_call # Null
        /\ format_call.retry_count = 1
        /\ format_call.result = exec_log[2]
        /\ format_call.result.success
        /\ ret.kind = "formatted" =>
              /\ ret.retry_count = 1
              /\ ret.banner = "success after retry"
              /\ ret.result = exec_log[2]

C2_Witness == C2_Scenario /\ ret.kind = "formatted"

\* C3: with max_retries = 2, two executions that both fail with status 404
\* end the run: exactly two executions are made, _format_response is called
\* with retry_count 1 and with the second failing result as the executor
\* returned it.
C3_Scenario ==
    /\ pc = "done"
    /\ Len(exec_log) >= 2
    /\ exec_log[1].status_code = 404
    /\ exec_log[2].status_code = 404

C3_ExhaustedAfterTwo404 ==
    C3_Scenario =>
        /\ Len(exec_log) = 2
        /\ Len(synth_log) = 2
        /\ format_call # Null
        /\ format_call.retry_count = 1
        /\ format_call.result = exec_log[2]
        /\ ~format_call.result.success
        /\ net.kind = "response" /\ format_call.result.data = net.data
        /\ ret.kind = "formatted" =>
              ret.banner = "failed after retry" /\ ret.result = exec_log[2]

C3_Witness ==
    /\ C3_Scenario
    /\ ret.kind = "formatted"
    /\ exec_log[1].data # exec_log[2].data

\* C4: every run ends, and it makes at most 2 synthesize calls and at most
\* 2 target-API executions, never more executions than syntheses.
C4_BoundedAttempts ==
    /\ [](/\ Len(synth_log) <= 2
          /\ Len(exec_log) <= 2
          /\ Len(exec_log) <= Len(synth_log))
    /\ <>(pc = "done")

C4_Witness ==
    /\ pc = "done"
    /\ Len(synth_log) = 2
    /\ Len(exec_log) = 2

----------------------------------------------------------------------------
(* Properties of the call executor *)

\* C5: for every HTTP response received, success is true exactly when the
\* status code is in 200..399.
C5_SuccessIff200To399 ==
    (pc = "exec_return" /\ ret.kind # "raised" /\ "full_url" \in DOMAIN result)
        => (result.success <=> (200 <= result.status_code /\ result.status_code <= 399))

\* C6: _execute_api_call never raises: for every plan mapping and whatever
\* the network does it returns a result with a status code and a success
\* flag; when the call could not be made or the network failed, the result
\* has status_code 0, success false and an error field.
C6_ExecutorNeverRaises ==
    pc = "exec_return" =>
        /\ ret.kind # "raised"
        /\ {"status_code", "success"} \subseteq DOMAIN result
        /\ (net.kind = "exception"
              \/ ExecuteTryBlock(api_call_info.d, net).outcome = "raise")
            => /\ result.status_code = 0
               /\ result.success = FALSE
               /\ "error" \in DOMAIN result

C6_Witness ==
    /\ pc = "exec_return"
    /\ "method" \in DOMAIN api_call_info.d
    /\ api_call_info.d["method"] = Null
    /\ net.kind = "response"
    /\ result.status_code = 0

----------------------------------------------------------------------------
(* Properties of the documentation harvester *)

\* C7 as stated: whenever the start URL serves a valid OpenAPI document,
\* whatever the URL looks like, the harvest returns the rendered spec and
\* the crawl loop is never entered.
C7_ValidSpecNeverCrawls ==
    start_page = "openapi" =>
        /\ pc # "crawl"
        /\ fetch_log = <<>>
        /\ pc = "harvest_return" => docs_content.kind = "spec"

\* C7 as amended: when the start URL ends with ".json" or contains
\* "openapi.json" or "swagger.json" and serves an OpenAPI document that
\* _fetch_openapi_spec renders, the harvest returns that rendering from
\* the first stage: no later stage runs and the crawl loop is never
\* entered.
C7_SpecUrlNeverCrawls ==
    (message.docs \in {"json", "swagger_json"} /\ start_page = "openapi") =>
        /\ pc \notin {"stage2", "stage3", "crawl"}
        /\ fetch_log = <<>>
        /\ pc \in {"harvest_return", "synthesize", "execute"}
              => docs_content.kind = "spec"

C7_Witness ==
    /\ message.docs = "swagger_json"
    /\ start_page = "openapi"
    /\ pc = "harvest_return"
    /\ docs_content.kind = "spec"

\* C8: a crawl issues at most 11 page fetches, its visited set never holds
\* more than 11 URLs, and no URL is fetched twice, also when a URL is
\* enqueued again (the start URL found as a link of the first page).
C8_CrawlBudget ==
    /\ Len(fetch_log) <= 11
    /\ Cardinality(visited_urls) <= 11
    /\ \A i, j \in DOMAIN fetch_log : i # j => fetch_log[i] # fetch_log[j]

\* the start URL was enqueued again and skipped, and the budget is used up
C8_Witness ==
    /\ pc = "crawl"
    /\ page_num = max_pages
    /\ Len(fetch_log) = max_pages - 1
    /\ Cardinality(visited_urls) = max_pages - 1

\* C9: when the start page is unreachable the harvest returns an error
\* string, and process returns it without calling the text generator or
\* the target API.
C9_UnreachableStartIsError ==
    start_page = "down" =>
        /\ pc = "harvest_return" => StartsWithError(docs_content)
        /\ synth_log = <<>>
        /\ exec_log = <<>>
        /\ (pc = "done" /\ ret.kind \notin {"usage", "need_request"})
              => ret.kind = "docs_error"

\* C10: the text the harvest returns, from the spec rendering or from the
\* crawl, is never longer than 2 x MAX_CONTENT_LENGTH plus the truncation
\* notice, and it ends with the notice exactly when the joined corpus was
\* longer than 2 x MAX_CONTENT_LENGTH.
C10_HarvestBounded ==
    pc = "harvest_return" =>
        /\ docs_content.len <= 2 * MAX_CONTENT_LENGTH + TruncationNoticeLen
        /\ docs_content.kind = "crawl" =>
              (docs_content.notice <=> CombinedLen(docs_items) > 2 * MAX_CONTENT_LENGTH)

----------------------------------------------------------------------------
(* Properties of the dispatch router *)

\* The agents whose predicate is true of a message, for every message
MatchingAgents == [text \in RouteMessages |-> {a \in Agents : can_handle(a, text)}]
Matching(r) == {i \in 1..Len(r.registry) : r.registry[i] \in MatchingAgents[r.message]}
Earliest(r) == CHOOSE i \in Matching(r) : \A j \in Matching(r) : i <= j
IndexOf(r, agent) == CHOOSE i \in 1..Len(r.registry) : r.registry[i] = agent
\* the triggers of the API caller, as the claim words them
HasApiCallTrigger(text) ==
    \/ Contains(Lower(text), "api_call:")
    \/ Contains(Lower(text), "docs=http")
ApiCallsWithUrl == {text \in RouteMessages : HasApiCallTrigger(text) /\ HasUrl(text)}

C12_NoMatchGivesHelp ==
    (router.pc = "done" /\ Matching(router) = {}) =>
        /\ router.invoked = <<>>
        /\ router.ret.kind = "help"
        /\ Len(router.ret.entries) = Len(router.registry)
        /\ \A i \in 1..Len(router.registry) :
             LET agent == router.registry[i]
                 listed == {k \in 1..Len(router.ret.entries) :
                               router.ret.entries[k].name = get_name(agent)}
             IN  /\ Cardinality(listed) = 1
                 /\ \A k \in listed :
                      /\ router.ret.entries[k].description = get_description(agent)
                      /\ router.ret.entries[k].example = get_usage_example(agent)

C12_Witness ==
    /\ router.pc = "done"
    /\ router.message = "hello there"
    /\ router.ret.kind = "help"
    /\ router.ret.entries[5].name = "url_fetcher"

\* C13: when process of the selected agent raises, the routing ends there:
\* what route returns is an error text that names that agent and the reason
\* of the fault, no fault leaves route, and no later agent of the registry
\* is asked or invoked.
C13_FaultContained ==
    router.pc # "idle" =>
        /\ router.ret.kind \in {"none", "text", "error", "help"}
        /\ router.raised # <<>> =>
              /\ router.pc = "done"
              /\ Len(router.raised) = 1
              /\ router.invoked = <<router.raised[1].agent>>
              /\ router.ret = [kind |-> "error",
                               capability |-> get_name(router.raised[1].agent),
                               reason |-> router.raised[1].reason]

\* the fault of an agent that a later agent of the registry matches too
C13_Witness ==
    /\ router.pc = "done"
    /\ router.message = "api_call: list users https://example.com/a1"
    /\ router.raised = <<[agent |-> "APICallerAgent", reason |-> "AttributeError"]>>
    /\ router.ret.kind = "error"
    /\ router.ret.capability = "api_caller"

----------------------------------------------------------------------------
(* Properties of APICallerAgent.process as a whole *)

\* C14: whatever the text generator replies (no JSON, a JSON object, JSON
\* that is no object), with or without an api key, process returns a text:
\* no exception leaves it.
C14_ProcessNeverRaises ==
    pc = "done" => ret.kind # "raised"

----------------------------------------------------------------------------
(* Properties of the request synthesizer *)

\* What the synthesizer returns for a reply that is the JSON text itself
FormedFromObject(object, docs_text, api_key) ==
    _form_api_call_with_llm(
        Corpus(Text("crawl", Len(docs_text), "", FALSE), Mentions(docs_text)),
        api_key,
        [kind |-> "json", value |-> Dict(JsonObjects[object].value)])

\* C15: a JSON object text, alone, inside a fence with the json tag or
\* inside a fence without tag, each with or without white space around it,
\* gives the same plan: the one json.loads gives for the text itself.
C15_FencedParsesAsUnfenced ==
    (synth.pc = "done" /\ synth.wrapper \in {"none", "json", "bare"}) =>
        synth.formed = FormedFromObject(synth.object, synth.docs_text, synth.api_key)

C15_Witness ==
    /\ synth.pc = "done"
    /\ synth.wrapper = "json"
    /\ synth.object = 7
    /\ synth.before = "\n\t"
    /\ synth.after = " \n"
    /\ synth.formed.outcome = "return"
    /\ synth.formed.value = Dict(JsonObjects[7].value)

\* The headers of a plan, none when the plan has no headers key
HeadersOf(plan) == IF "headers" \in DOMAIN plan THEN plan["headers"] ELSE EmptyDict
\* A header named Authorization, in any letter case
HasAuthorization(headers) == \E name \in DOMAIN headers.d : Lower(name) = "authorization"
\* The header the rules choose for a documentation text
ChosenHeader(docs_text) ==
    IF Contains(Lower(docs_text), "bearer") THEN "Authorization" :> "Bearer <key>"
    ELSE IF Contains(Lower(docs_text), "x-api-key") THEN "X-API-Key" :> "<key>"
    ELSE "ApiKey" :> "<key>"

\* C16: with a key and a plan whose headers hold no Authorization header,
\* the returned plan has exactly one header more, the one the first
\* matching rule over the lower-cased corpus chooses (bearer, x-api-key,
\* apikey, else ApiKey); with an Authorization header in any letter case,
\* or without a key, the headers come back unchanged.
C16_KeyInjection ==
    LET plan == JsonObjects[synth.object].value
        before == HeadersOf(plan)
    IN  (/\ synth.pc = "done"
         /\ synth.wrapper = "none"
         /\ IsDict(before)
         /\ synth.formed.outcome = "return"
         /\ "error" \notin DOMAIN synth.formed.value.d) =>
            LET after == HeadersOf(synth.formed.value.d)
            IN  IF synth.api_key /\ ~HasAuthorization(before)
                THEN /\ after = Dict(ChosenHeader(synth.docs_text) @@ before.d)
                     /\ Cardinality(DOMAIN after.d) = Cardinality(DOMAIN before.d) + 1
                ELSE after = before


\* The node a request resolves to, and whether a node lies under base_dir
Requested(f) ==
    realpath(f.disk, f.cwd, IF f.op = "read" THEN f.path ELSE WritePath(f.path))
Inside(node) ==
    Len(node) >= Len(base_dir) /\ SubSeq(node, 1, Len(base_dir)) = base_dir
Touches(step) == step.op \in {"exists", "open_r", "open_w", "makedirs"}
InitialDisk(f) == [dirs |-> Dirs0, regs |-> Regs0, links |-> f.disk.links]

\* C17: a read or write request whose resolved path lies outside the base
\* directory ("..", an absolute path, a symbolic link) is answered with the
\* security error, nothing is looked up, opened or created and the disk is
\* as before; and in every request the validation comes before any
\* existence check, makedirs or open.
C17_OutsideIsRejected ==
    files.pc = "done" =>
        /\ ~Inside(Requested([files EXCEPT !.disk = InitialDisk(files)])) =>
              /\ files.ret = "security_error"
              /\ \A i \in DOMAIN files.log : ~Touches(files.log[i])
              /\ files.disk = InitialDisk(files)
        /\ \A i \in DOMAIN files.log :
              Touches(files.log[i]) =>
                  \E j \in 1..(i - 1) : files.log[j].op = "validate"

\* A write request through the directory link out, which leads to /etc,
\* was rejected
C17_Witness ==
    /\ files.pc = "done"
    /\ files.op = "write"
    /\ files.path = RelPath(<<"artefacts", "out", "secret.txt">>)
    /\ <<"app", "artefacts", "out">> \in files.disk.links
    /\ ~Inside(Requested(files))
    /\ files.ret = "security_error"


\* The words of a search term and the keywords of a stored key
WordsOf(name) ==
    {Split(_normalize_search_term(name), "_")[i] :
        i \in DOMAIN Split(_normalize_search_term(name), "_")}
KeywordsOf(key) == {Split(key, "_")[i] : i \in DOMAIN Split(key, "_")}
\* The stored keys all of whose keywords include the words of the name
Designated(name, credentials) ==
    {k \in DOMAIN credentials : WordsOf(name) \subseteq KeywordsOf(credentials[k].key)}

\* C18: a search term made of keywords of a stored composite key, in any
\* letter case, gets the value stored under that key (checked where the key
\* is the only one in the store that has all the words as keywords).
C18_KeywordSubsetFindsValue ==
    (creds.pc = "done" /\ creds.name # "") =>
        \A k \in DOMAIN creds.cache.items :
            Designated(creds.name, creds.cache.items) = {k}
                => creds.ret = Str(creds.cache.items[k].value)

\* The same store loaded in another order
Reordered(f) ==
    {lines \in EnvFiles : {lines[i] : i \in DOMAIN lines} = {f.lines[i] : i \in DOMAIN f.lines}}

\* C19: in a store of several credentials, a phrasing that names one
\* credential gets what the literal key of that credential gets, and the
\* answer to a name does not depend on the order of loading.
C19_PhrasingAgreesWithLiteralKey ==
    (creds.pc = "done" /\ creds.name # "" /\ Len(creds.lines) >= 2) =>
        /\ \A k \in DOMAIN creds.cache.items :
              Designated(creds.name, creds.cache.items) = {k}
                  => creds.ret = get_credential(creds.cache.items[k].key, creds.cache.items)
        /\ \A lines \in Reordered(creds) :
              get_credential(creds.name, _parse_env_file(creds.environ, lines)) = creds.ret


\* The request has no messages, or its last message has no or empty content
NoMessages(data) ==
    /\ data.t = "dict"
    /\ \/ "messages" \notin DOMAIN data.d
       \/ data.d.messages = List(<<>>)
EmptyContent(data) ==
    /\ data.t = "dict"
    /\ "messages" \in DOMAIN data.d
    /\ data.d.messages.t = "list"
    /\ data.d.messages.items # <<>>
    /\ LET last_message == data.d.messages.items[Len(data.d.messages.items)]
       IN  Get(last_message.d, "content", Str("")) = Str("")

\* C20: a request without messages, or whose last message has empty content,
\* is answered with HTTP 400, and no URL is fetched and the generator is not
\* called for it.
C20_EmptyInputIs400 ==
    (chat.pc = "done" /\ (NoMessages(chat.data) \/ EmptyContent(chat.data))) =>
        /\ chat.response.status = 400
        /\ chat.fetches = <<>>
        /\ chat.generator_calls = 0


\* The leftmost match of the URL pattern in a text: where it starts and ends
LeftmostUrl(text) ==
    CHOOSE span \in (1..Len(text)) \X (1..Len(text)) :
        /\ UrlAt(text, span[1])
        /\ \A i \in 1..(span[1] - 1) : ~UrlAt(text, i)
        /\ span[1] <= span[2]
        /\ \A i \in span[1]..span[2] : UrlChar(CharAt(text, i))
        /\ span[2] = Len(text) \/ ~UrlChar(CharAt(text, span[2] + 1))

\* C21: for a message URLFetcherAgent.can_handle accepts, process returns a
\* text that begins with "Summary of <u>:", <u> the first URL of the
\* message, whatever the page fetch and the summarization gave.
C21_SummaryOfFirstUrl ==
    (fetcher.pc = "done" /\ URLFetcherAgent_can_handle(fetcher.message)) =>
        StartsWith(fetcher.ret,
                   "Summary of "
                     \o SubSeq(fetcher.message, LeftmostUrl(fetcher.message)[1],
                               LeftmostUrl(fetcher.message)[2])
                     \o ":")

\* The message of the scenario, with the page fetch and the summarization
\* both failed
C21_Witness ==
    /\ fetcher.pc = "done"
    /\ fetcher.message = "https://example.com/a1"
    /\ fetcher.summarized = <<"Error fetching URL: timed out">>
    /\ StartsWith(fetcher.ret, "Summary of https://example.com/a1:\n\nError generating summary")


\* What the controller holds of the last attempt when a synthesis starts:
\* the status and body of its result and the request of its plan
LastFailure ==
    [status_code |-> result.status_code,
     error_response |-> result.data,
     attempted_request |->
        [method |-> api_call_info.d.method, url |-> api_call_info.d.url,
         headers |-> api_call_info.d.headers, body |-> api_call_info.d.body,
         params |-> api_call_info.d.params]]

\* C22: the synthesis of attempt 0 is handed no failure; the synthesis of
\* attempt n > 0 is handed the failure of attempt n-1: the status and the
\* body of its result and the method, url, headers (with the injected key),
\* body and params of the plan that was executed.
C22_FailureHandOff ==
    [][pc = "synthesize" =>
         /\ attempt > 0 => (Len(exec_log) = attempt /\ result = exec_log[attempt])
         /\ synth_log' = Append(synth_log, IF attempt = 0 THEN Null ELSE LastFailure)
         /\ Len(synth_log) = attempt]_vars

\* The retry was handed a 422, its body and the request with the injected
\* ApiKey header
C22_Witness ==
    /\ Len(synth_log) = 2
    /\ synth_log[1] = Null
    /\ synth_log[2].status_code = 422
    /\ synth_log[2].error_response = Str("body b")
    /\ IsDict(synth_log[2].attempted_request.headers)
    /\ "ApiKey" \in DOMAIN synth_log[2].attempted_request.headers.d


\* C23: a synthesis step, of the first attempt or of the retry, either
\* gives a usable plan and goes on to the execution, or ends the run at
\* once with the error text: the target API is not called in that attempt,
\* no further attempt is made and no execution result is formatted.
C23_SynthesisFailureIsTerminal ==
    [][pc = "synthesize" =>
         \/ /\ pc' = "execute"
            /\ ~SynthesisFailed(api_call_info')
         \/ /\ pc' = "done"
            /\ ret'.kind = "synth_error"
            /\ SynthesisFailed(api_call_info')
            /\ exec_log' = exec_log
            /\ attempt' = attempt
            /\ format_call' = Null]_vars


\* The crawl as it starts: the start URL alone in the queue, nothing visited
CrawlStartsFresh(queue, visited, items, n) ==
    queue = <<StartUrl>> /\ visited = {} /\ items = <<>> /\ n = 0
InStages == pc \in {"stage1", "stage2", "stage3"}

\* C24: a stage of the harvester ends the harvest only with a rendered
\* spec; otherwise it hands over to the next stage, the last one to the
\* crawl, which starts from the start URL; and from every stage the harvest
\* does reach the crawl or the return of a spec (the crawl, when nothing
\* can be fetched).
C24_StagesFallBackToCrawl ==
    /\ [][InStages =>
            \/ pc' = "harvest_return" /\ docs_content'.kind = "spec"
                 /\ TextTruthy(docs_content')
            \/ pc = "stage1" /\ pc' = "stage2" /\ docs_content' = docs_content
            \/ pc = "stage2" /\ pc' = "stage3" /\ docs_content' = docs_content
            \/ pc = "stage3" /\ pc' = "crawl"
                 /\ CrawlStartsFresh(links_to_visit', visited_urls', docs_items', page_num')]_vars
    /\ InStages ~> (pc = "crawl" \/ (pc = "harvest_return" /\ docs_content.kind = "spec"))
    /\ (pc = "stage1" /\ start_page = "down")
          ~> (pc = "crawl"
                /\ CrawlStartsFresh(links_to_visit, visited_urls, docs_items, page_num))

\* The direct spec attempt failed (the URL ends in .json and serves a JSON
\* list), and the crawl is set up on the start URL
C24_Witness ==
    /\ pc = "crawl"
    /\ message.docs = "json"
    /\ start_page = "json_list"
    /\ links_to_visit = <<StartUrl>>

\* The links a page other than the first one carries
FoundOnLaterPage(url) ==
    \E v \in visited_urls \ {StartUrl} : \E k \in DOMAIN PageAnchors(v, 0) :
        PageAnchors(v, 0)[k].url = url

\* C25: links are added to the crawl queue only in the iteration that
\* processes the first dequeued page, and at most 10 of them; every later
\* iteration only removes the head of the queue, so the queue never holds
\* more than 10 pending URLs and no link of a later page is fetched.  When
\* the fetch of the first page fails nothing is ever enqueued.
C25_QueueGrowsOnFirstPageOnly ==
    /\ [][(pc = "crawl" /\ pc' = "crawl") =>
            IF page_num = 0
            THEN /\ links_to_visit = <<StartUrl>>
                 /\ Len(links_to_visit') <= 10
                 /\ start_page = "down" => links_to_visit' = <<>>
            ELSE links_to_visit' = Tail(links_to_visit)]_vars
    /\ [](pc = "crawl" =>
            /\ Len(links_to_visit) <= 10
            /\ \A i \in DOMAIN fetch_log : ~FoundOnLaterPage(fetch_log[i])
            /\ start_page = "down" =>
                  (page_num > 0 => links_to_visit = <<>> /\ fetch_log = <<StartUrl>>))

\* Ten links were enqueued from the first page, and two linked pages,
\* each with a link of its own, were fetched since
C25_Witness ==
    /\ pc = "crawl"
    /\ page_num = 3
    /\ Len(fetch_log) = 3
    /\ Len(links_to_visit) = 8
    /\ Len(docs_items) = 3

\* The a-tags of a first page of n anchors that qualify: on the domain of
\* the start URL, no fragment and no download, of a score of 1 or more,
\* and the first a-tag in the document with that URL
Followed(a) == a.same_domain /\ ~a.skip
Candidates(n) ==
    {i \in 1..n :
        /\ Followed(AnchorAt(i))
        /\ AnchorAt(i).score >= 1
        /\ \A j \in 1..(i - 1) :
              Followed(AnchorAt(j)) => AnchorAt(j).url # AnchorAt(i).url}
\* i comes before j: the higher score first, equal scores in document order
Before(i, j) ==
    \/ AnchorAt(i).score > AnchorAt(j).score
    \/ AnchorAt(i).score = AnchorAt(j).score /\ i < j
Rank(n, i) == 1 + Cardinality({j \in Candidates(n) : Before(j, i)})
Selection(n) ==
    LET chosen == {i \in Candidates(n) : Rank(n, i) <= 10}
    IN  [k \in 1..Cardinality(chosen) |->
            AnchorAt(CHOOSE i \in chosen : Rank(n, i) = k).url]
Selections == {Selection(n) : n \in 0..MaxAnchors}
\* A queue without the entries the loop skips as visited
RECURSIVE Pending(_, _)
Pending(queue, visited) ==
    IF queue = <<>> THEN <<>>
    ELSE IF Head(queue) \in visited THEN Pending(Tail(queue), visited)
         ELSE <<Head(queue)>> \o Pending(Tail(queue), visited)

\* C26: the URLs enqueued from the first page are those of the a-tags on
\* the start URL's domain with a score of 1 or more, each URL once, the
\* higher score first and equal scores in document order, cut after the
\* first 10; the pages are then fetched in that order, first in first out.
C26_LinkSelection ==
    /\ [][(pc = "crawl" /\ page_num = 0 /\ page_num' = 1 /\ start_page = "html")
            => links_to_visit' \in Selections]_vars
    /\ [](pc = "crawl" /\ page_num > 0 =>
            \E sel \in Selections :
                /\ fetch_log[1] = StartUrl
                /\ Tail(fetch_log) \o Pending(links_to_visit, {StartUrl})
                      = Pending(sel, {StartUrl}))

\* More than ten a-tags qualify, the ten of the higher scores were
\* enqueued, the link back to the start URL among them, and the first six
\* entries of the queue have been taken: five fetched, out of document
\* order, and the start URL skipped
C26_Witness ==
    /\ pc = "crawl"
    /\ page_num = 7
    /\ Cardinality(Candidates(MaxAnchors)) > 10
    /\ Tail(fetch_log) = Pending(SubSeq(Selection(MaxAnchors), 1, 6), {StartUrl})
    /\ Len(fetch_log) = 6
    /\ links_to_visit = SubSeq(Selection(MaxAnchors), 7, 10)
    /\ \E i, j \in 2..6 : i < j /\ fetch_log[i] > fetch_log[j]

\* A step of the crawl in which the fetch of the dequeued page fails
FetchFails ==
    /\ pc = "crawl"
    /\ fetch_log' # fetch_log
    /\ \/ fetch_failures' # fetch_failures
       \/ fetch_log = <<>> /\ start_page = "down"
FetchedUrls(items) == {items[i].url : i \in DOMAIN items}

\* C27: a fetch failure of a queued page adds nothing to the corpus and
\* leaves what was collected unchanged, the crawl goes on with the rest of
\* the queue, the failed URL is in the visited set, no URL in the visited
\* set is fetched again, and the crawl ends only with the queue empty.
C27_FailureIsSkipped ==
    /\ [][FetchFails =>
            /\ docs_items' = docs_items
            /\ pc' = "crawl"
            /\ links_to_visit' = Tail(links_to_visit)
            /\ Head(links_to_visit) \in visited_urls'
            /\ visited_urls \subseteq visited_urls']_vars
    /\ [][(pc = "crawl" /\ fetch_log' # fetch_log)
            => fetch_log'[Len(fetch_log')] \notin visited_urls]_vars
    /\ [][(pc = "crawl" /\ pc' # "crawl") => links_to_visit = <<>>]_vars
    /\ [](pc = "crawl" => FetchedUrls(docs_items) \subseteq visited_urls)

\* Pages were collected, then the fetch of a page failed, and pages after
\* it were fetched and collected; the crawl is over with the queue empty
C27_Witness ==
    /\ pc = "crawl"
    /\ links_to_visit = <<>>
    /\ fetch_failures = 1
    /\ Len(docs_items) >= 4
    /\ \E k \in 3..(Len(fetch_log) - 2) :
          /\ fetch_log[k] \notin FetchedUrls(docs_items)
          /\ fetch_log[k] \in visited_urls
          /\ fetch_log[k - 1] \in FetchedUrls(docs_items)
          /\ fetch_log[k + 1] \in FetchedUrls(docs_items)

----------------------------------------------------------------------------
(* Properties of the credential cache *)

\* A step in which the lookup of thread t, which went to the cache,
\* returns or raises
LookupEnds(t) == creds.th[t].pc = "match" /\ creds'.th[t].pc = "idle"

\* C28: the source is parsed at most once between reloads, and a lookup
\* that no reload crossed runs on the map of the first parse since the
\* last reload (since the start, before any reload) and returns what that
\* map holds for the name, whatever became of the source since.
C28_OneSnapshotBetweenReloads ==
    /\ [](creds.parses <= 1)
    /\ [][\A t \in Threads :
            (LookupEnds(t) /\ creds.th[t].epoch = creds.reloads) =>
                /\ creds.snap # Null
                /\ creds.th[t].credentials = creds.snap
                /\ creds'.last.ret = get_credential(creds.th[t].name, creds.snap.items)]_vars

\* C29: in every interleaving of get_credential with reload_credentials a
\* reader holds a map _parse_env_file returned, never None, and no lookup
\* raises.
C29_ReaderNeverSeesNone ==
    /\ [](\A t \in Threads :
            creds.th[t].pc = "match" =>
                creds.th[t].credentials \in {Parsed(source) : source \in CacheSources})
    /\ [](creds.last.ret \notin {Raised("TypeError")})

----------------------------------------------------------------------------
(* Properties of the file write *)

\* The messages of the model that hold one of the six keywords, by hand
WithKeyword ==
    {"Overwrite", "please REPLACE the old one", "write over", "rewrite",
     "update the file", "Update File"}
\* A write request that passed the validation and the extension test, for
\* a path that was there before the request
WriteToTaken(f) ==
    /\ f.pc = "done"
    /\ f.op = "write"
    /\ f.ret \notin {"security_error", "cannot_write"}
    /\ exists(InitialDisk(f), f.cwd, WritePath(f.path))
OpenedForWrite(f) == {f.log[i].node : i \in {j \in DOMAIN f.log : f.log[j].op = "open_w"}}
Sibling(f, k) == Renamed(WritePath(f.path), k)
InSameDirectory(f, k) ==
    /\ dirname(Sibling(f, k)) = dirname(WritePath(f.path))
    /\ basename(Sibling(f, k)) =
          splitext(basename(WritePath(f.path)))[1] \o "_" \o Decimal(k)
            \o splitext(basename(WritePath(f.path)))[2]

====
